---- MODULE Spec2Model ----
(***************************************************************************)
(* A model of pyTigerGraph's metadata layer (TigerGraphBase):              *)
(*   - the LS text scanner _ls and the SHOW USER scanner _getUsers,        *)
(*   - the schema assembler _getSchema / getSchema with its cache,         *)
(*   - useGraph / useGlobal,                                               *)
(*   - the edge end point accessors.                                       *)
(* Text is modelled at character level: a Python str is a TLA+ string,     *)
(* a Python list a sequence, a Python dict a function on its keys.         *)
(***************************************************************************)
EXTENDS Integers, Sequences, FiniteSets, TLC

(***************************************************************************)
(* Python str primitives, 0-based as in the source.                        *)
(***************************************************************************)
MinOf(S) == CHOOSE x \in S : \A y \in S : x <= y

MaxOf(S) == CHOOSE x \in S : \A y \in S : x >= y

WS == {" ", "\t", "\n"}

\* s[k], k a valid 0-based index
At(s, k) == SubSeq(s, k + 1, k + 1)

\* Python slice bound normalisation: negative counts from the end, then clamp
Norm(s, a) ==
    LET n == Len(s)
        b == IF a < 0 THEN a + n ELSE a
    IN  IF b < 0 THEN 0 ELSE IF b > n THEN n ELSE b

\* s[a:b]
Slice(s, a, b) == SubSeq(s, Norm(s, a) + 1, Norm(s, b))

\* s[a:]
SliceFrom(s, a) == SubSeq(s, Norm(s, a) + 1, Len(s))

\* p occurs in s at 0-based position k
OccursAt(s, p, k) == k >= 0 /\ k + Len(p) <= Len(s) /\ SubSeq(s, k + 1, k + Len(p)) = p

\* s.find(p): lowest index, -1 when absent
Find(s, p) ==
    LET hits == {k \in 0..(Len(s) - Len(p)) : OccursAt(s, p, k)}
    IN  IF hits = {} THEN -1 ELSE MinOf(hits)

\* s.rfind(p)
RFind(s, p) ==
    LET hits == {k \in 0..(Len(s) - Len(p)) : OccursAt(s, p, k)}
    IN  IF hits = {} THEN -1 ELSE MaxOf(hits)

\* p in s
Contains(s, p) == Find(s, p) # -1

StartsWith(s, p) == OccursAt(s, p, 0)

EndsWith(s, p) == OccursAt(s, p, Len(s) - Len(p))

\* s.lstrip()
Lstrip(s) ==
    LET keep == {k \in 0..(Len(s) - 1) : At(s, k) \notin WS}
    IN  IF keep = {} THEN "" ELSE SliceFrom(s, MinOf(keep))

\* s.rstrip()
RstripWs(s) ==
    LET keep == {k \in 0..(Len(s) - 1) : At(s, k) \notin WS}
    IN  IF keep = {} THEN "" ELSE SubSeq(s, 1, MaxOf(keep) + 1)

\* s.rstrip(chars)
Rstrip(s, chars) ==
    LET keep == {k \in 0..(Len(s) - 1) : At(s, k) \notin chars}
    IN  IF keep = {} THEN "" ELSE SubSeq(s, 1, MaxOf(keep) + 1)

\* s.lstrip(chars)
LstripChars(s, chars) ==
    LET keep == {k \in 0..(Len(s) - 1) : At(s, k) \notin chars}
    IN  IF keep = {} THEN "" ELSE SliceFrom(s, MinOf(keep))

\* s.split(sep), sep non-empty: empty pieces are kept
RECURSIVE Split(_, _)
Split(s, sep) ==
    LET k == Find(s, sep)
    IN  IF k = -1 THEN <<s>>
        ELSE <<SubSeq(s, 1, k)>> \o Split(SliceFrom(s, k + Len(sep)), sep)

\* s.split(): runs of white space separate, no empty piece
RECURSIVE SplitWs(_)
SplitWs(s) ==
    LET t == Lstrip(s)
        ends == {k \in 0..(Len(t) - 1) : At(t, k) \in WS}
    IN  IF t = "" THEN <<>>
        ELSE IF ends = {} THEN <<t>>
        ELSE <<SubSeq(t, 1, MinOf(ends))>> \o SplitWs(SliceFrom(t, MinOf(ends)))

\* sep.join(parts)
RECURSIVE Join(_, _)
Join(parts, sep) ==
    IF parts = <<>> THEN ""
    ELSE IF Len(parts) = 1 THEN parts[1]
    ELSE parts[1] \o sep \o Join(Tail(parts), sep)

\* s.replace(a, b) for a one-character a (halving keeps the recursion shallow)
RECURSIVE Replace(_, _, _)
Replace(s, a, b) ==
    IF s = "" THEN ""
    ELSE IF Len(s) = 1 THEN (IF s = a THEN b ELSE s)
    ELSE LET h == Len(s) \div 2
         IN  Replace(SubSeq(s, 1, h), a, b) \o Replace(SubSeq(s, h + 1, Len(s)), a, b)

LowerCase == <<"a", "b", "c", "d", "e", "f", "g", "h", "i", "j", "k", "l", "m",
               "n", "o", "p", "q", "r", "s", "t", "u", "v", "w", "x", "y", "z">>

UpperCase == <<"A", "B", "C", "D", "E", "F", "G", "H", "I", "J", "K", "L", "M",
               "N", "O", "P", "Q", "R", "S", "T", "U", "V", "W", "X", "Y", "Z">>

UpperChar(c) ==
    IF \E k \in 1..26 : LowerCase[k] = c
    THEN UpperCase[CHOOSE k \in 1..26 : LowerCase[k] = c]
    ELSE c

\* s.upper()
RECURSIVE Upper(_)
Upper(s) ==
    IF s = "" THEN ""
    ELSE IF Len(s) = 1 THEN UpperChar(s)
    ELSE LET h == Len(s) \div 2
         IN  Upper(SubSeq(s, 1, h)) \o Upper(SubSeq(s, h + 1, Len(s)))

(***************************************************************************)
(* The regular expressions of _ls, each modelled by what it matches.       *)
(***************************************************************************)
\* first index >= k of s that holds no white space (Len(s) when none)
RECURSIVE SkipWs(_, _)
SkipWs(s, k) == IF k < Len(s) /\ At(s, k) \in WS THEN SkipWs(s, k + 1) ELSE k

IsWsAt(s, k) == k >= 0 /\ k < Len(s) /\ At(s, k) \in WS

\* p occurs in s at k, letter case ignored (re.IGNORECASE)
OccursAtCI(s, p, k) ==
    k >= 0 /\ k + Len(p) <= Len(s) /\ Upper(SubSeq(s, k + 1, k + Len(p))) = Upper(p)

\* DEFINE\s+FILENAME\s+ matched at k: the index after the match, -1 when no match
MatchDefine(s, k) ==
    IF OccursAtCI(s, "DEFINE", k) /\ IsWsAt(s, k + 6)
    THEN LET a == SkipWs(s, k + 6)
         IN  IF OccursAtCI(s, "FILENAME", a) /\ IsWsAt(s, a + 8)
             THEN SkipWs(s, a + 8)
             ELSE -1
    ELSE -1

\* DEFINE\s+FILENAME\s+.+?; matched at k: the index after the ";", -1 when no
\* match.  \s+ is greedy, .+? takes at least one character and stops at the
\* first ";" after it; when that fails \s+ gives one blank back to .+?
MatchDefineStmt(s, k) ==
    LET e == MatchDefine(s, k)
        semis == {j \in (e + 1)..(Len(s) - 1) : At(s, j) = ";"}
    IN  IF e = -1 THEN -1
        ELSE IF semis # {} THEN MinOf(semis) + 1
        ELSE IF e < Len(s) /\ At(s, e) = ";" /\ IsWsAt(s, e - 2) THEN e + 1
        ELSE -1

\* re.findall(r"DEFINE\s+FILENAME\s+.+?;", s, re.IGNORECASE), scanning from k
RECURSIVE FindAllDefine(_, _)
FindAllDefine(s, k) ==
    LET starts == {j \in k..(Len(s) - 1) : MatchDefineStmt(s, j) # -1}
    IN  IF starts = {} THEN <<>>
        ELSE LET j == MinOf(starts)
                 e == MatchDefineStmt(s, j)
             IN  <<Slice(s, j, e)>> \o FindAllDefine(s, e)

\* re.sub(r"DEFINE\s+FILENAME\s+", "", s, 0, re.IGNORECASE)
RECURSIVE SubDefine(_)
SubDefine(s) ==
    LET starts == {j \in 0..(Len(s) - 1) : MatchDefine(s, j) # -1}
    IN  IF starts = {} THEN s
        ELSE LET j == MinOf(starts)
             IN  Slice(s, 0, j) \o SubDefine(SliceFrom(s, MatchDefine(s, j)))

\* re.split(r"\s+=\s+", s)
RECURSIVE SplitEq(_)
SplitEq(s) ==
    LET starts == {p \in 0..(Len(s) - 1) :
                      /\ IsWsAt(s, p)
                      /\ SkipWs(s, p) < Len(s)
                      /\ At(s, SkipWs(s, p)) = "="
                      /\ IsWsAt(s, SkipWs(s, p) + 1)}
    IN  IF starts = {} THEN <<s>>
        ELSE LET p == MinOf(starts)
                 e == SkipWs(s, SkipWs(s, p) + 1)
             IN  <<Slice(s, 0, p)>> \o SplitEq(SliceFrom(s, e))

\* re.sub(qpatt, "CREATE", s) with qpatt = [\s\S\n]+CREATE: the greedy class
\* runs to the last CREATE that has at least one character before it
SubQpatt(s) ==
    LET k == RFind(s, "CREATE")
    IN  IF k >= 1 THEN "CREATE" \o SliceFrom(s, k + 6) ELSE s

\* the filename definitions of a loading job statement
RECURSIVE FdsOf(_)
FdsOf(fd) ==
    IF fd = <<>> THEN <<>>
    ELSE LET stmt == SplitEq(Rstrip(SubDefine(fd[1]), {";"}))
         IN  <<IF Len(stmt) = 2 THEN <<stmt[1], stmt[2]>> ELSE <<stmt[1], "">> >>
             \o FdsOf(Tail(fd))

FilenameDefinitions(txt) == FdsOf(FindAllDefine(Replace(txt, "\n", " "), 0))

(***************************************************************************)
(* The GSQL server as _ls sees it.                                         *)
(***************************************************************************)
GLOBAL == "GLOBAL"

\* the reply to SHOW QUERY <qName>: a preamble line, then the statement
GsqlShowQuery(qName) ==
    << "# installed v2",
       "CREATE QUERY " \o qName \o "() FOR GRAPH g1 {",
       IF qName = "q1" THEN "  PRINT \"CREATE\";" ELSE "  PRINT 1;",
       "}" >>

(***************************************************************************)
(* _ls: the scanner.  Its local state is the record st:                    *)
(*   i     the cursor                                                      *)
(*   vts, ixs, ets, qus, dss, ljs, scjs, udts   the collections            *)
(*   cmds  the GSQL commands issued so far                                 *)
(*   err   "" or the exception that ended the scan                         *)
(* One operator per branch of the if / elif chain, each ending with the    *)
(* loop's final i += 1.                                                    *)
(***************************************************************************)
LsStart ==
    [i |-> 0, vts |-> <<>>, ixs |-> <<>>, ets |-> <<>>, qus |-> <<>>, dss |-> <<>>,
     ljs |-> <<>>, scjs |-> <<>>, udts |-> <<>>, cmds |-> <<"LS">>, err |-> ""]

\* res[i], i < len(res)
LineAt(res, i) == res[i + 1]

IsVertexLine(line) == Contains(line, "- VERTEX")

IsIndexesLine(line) == StartsWith(line, "Indexes:")

IsEdgeLine(line) == Contains(line, "- DIRECTED EDGE") \/ Contains(line, "- UNDIRECTED EDGE")

IsLoadingJobLine(line) == Contains(line, "- CREATE LOADING JOB")

IsSchemaChangeJobLine(line) == Contains(line, "- CREATE SCHEMA_CHANGE JOB")

IsQueriesLine(line) == StartsWith(line, "Queries:")

IsUDTsLine(line) == StartsWith(line, "User defined tuples:")

IsDataSourcesLine(line) == StartsWith(line, "Data Sources:")

\* the bulleted member lines of a block
IsBulleted(line) == StartsWith(Lstrip(line), "- ")

\* the line that ends the body of a loading job or schema change job
IsJobTerminator(line) == Contains(line, "- CREATE") \/ StartsWith(line, "Queries")

LsVertex(res, st) ==
    LET line == LineAt(res, st.i)
        vtn == Slice(line, Find(line, "- VERTEX ") + 9, Find(line, "("))
        vt == [Name |-> vtn, Statement |-> SliceFrom(line, Find(line, "- ") + 2)]
    IN  [st EXCEPT !.vts = Append(@, vt), !.i = @ + 1]

LsEdge(res, st) ==
    LET line == LineAt(res, st.i)
        etn == Slice(line, Find(line, "EDGE") + 5, Find(line, "("))
        et == [Name |-> etn, Statement |-> SliceFrom(line, Find(line, "- ") + 2)]
    IN  [st EXCEPT !.ets = Append(@, et), !.i = @ + 1]

\* one index member line
IndexOf(line) ==
    LET tmp1 == Split(SliceFrom(line, Find(line, "- ") + 2), ":")
        tmp2 == tmp1[2]
    IN  [Name |-> tmp1[1], Statement |-> "",
         Vertex |-> Slice(tmp2, 0, Find(tmp2, "(")),
         Attribute |-> Slice(tmp2, Find(tmp2, "(") + 1, Find(tmp2, ")"))]

\* while line.lstrip().startswith("- "): ...; i = i + 1; line = res[i]
RECURSIVE IndexesLoop(_, _, _)
IndexesLoop(res, i, ixs) ==
    IF i >= Len(res) THEN [i |-> i, out |-> ixs, err |-> "IndexError"]
    ELSE IF ~IsBulleted(LineAt(res, i)) THEN [i |-> i, out |-> ixs, err |-> ""]
    ELSE IF Len(Split(SliceFrom(LineAt(res, i), Find(LineAt(res, i), "- ") + 2), ":")) < 2
         THEN [i |-> i, out |-> ixs, err |-> "IndexError"]
    ELSE IndexesLoop(res, i + 1, Append(ixs, IndexOf(LineAt(res, i))))

LsIndexes(res, st) ==
    LET r == IndexesLoop(res, st.i + 1, st.ixs)
    IN  IF r.err # "" THEN [st EXCEPT !.err = r.err, !.i = r.i]
        ELSE [st EXCEPT !.ixs = r.out, !.i = r.i + 1]

\* while not ("- CREATE" in line or line.startswith("Queries")): txt += line + "\n" ...
RECURSIVE JobBodyLoop(_, _, _)
JobBodyLoop(res, i, txt) ==
    IF i >= Len(res) THEN [i |-> i, out |-> txt, err |-> "IndexError"]
    ELSE IF IsJobTerminator(LineAt(res, i)) THEN [i |-> i, out |-> txt, err |-> ""]
    ELSE JobBodyLoop(res, i + 1, txt \o LineAt(res, i) \o "\n")

\* the declaration line of a job and its body: name, statement text, cursor
JobBlock(res, i) ==
    LET line == LineAt(res, i)
        stmt == SliceFrom(line, Find(line, "- ") + 2)
        parts == Split(stmt, " ")
        r == JobBodyLoop(res, i + 1, stmt \o "\n")
    IN  IF Len(parts) < 4 THEN [i |-> i, err |-> "IndexError", name |-> "", txt |-> ""]
        ELSE [i |-> r.i, err |-> r.err, name |-> parts[4],
              txt |-> Rstrip(r.out, {" ", "\n"})]

\* the line that ends the body is consumed with the job
LsLoadingJobConsuming(res, st) ==
    LET b == JobBlock(res, st.i)
        lj == [Name |-> b.name, Statement |-> b.txt,
               FilenameDefinitions |-> FilenameDefinitions(b.txt)]
    IN  IF b.err # "" THEN [st EXCEPT !.err = b.err, !.i = b.i]
        ELSE [st EXCEPT !.ljs = Append(@, lj), !.i = b.i + 1]

\* lines 287-311
LsLoadingJob(res, st) ==
    LET b == JobBlock(res, st.i)
        lj == [Name |-> b.name, Statement |-> b.txt,
               FilenameDefinitions |-> FilenameDefinitions(b.txt)]
    IN  IF b.err # "" THEN [st EXCEPT !.err = b.err, !.i = b.i]
        ELSE [st EXCEPT !.ljs = Append(@, lj), !.i = (b.i - 1) + 1]

LsSchemaChangeJob(res, st) ==
    LET b == JobBlock(res, st.i)
        scj == [Name |-> b.name, Statement |-> b.txt]
    IN  IF b.err # "" THEN [st EXCEPT !.err = b.err, !.i = b.i]
        ELSE [st EXCEPT !.scjs = Append(@, scj), !.i = (b.i - 1) + 1]

\* one query member line: the name, the flag, the statement fetched by SHOW QUERY
QueryOf(line) ==
    LET qName == Slice(line, Find(line, "- ") + 2, Find(line, "("))
    IN  [Name |-> qName,
         Statement |-> SubQpatt(Join(GsqlShowQuery(qName), "\n")),
         Deprecated |-> EndsWith(line, "(deprecated)")]

RECURSIVE QueriesLoop(_, _, _, _)
QueriesLoop(res, i, qus, cmds) ==
    IF i >= Len(res) THEN [i |-> i, out |-> qus, cmds |-> cmds, err |-> "IndexError"]
    ELSE IF ~IsBulleted(LineAt(res, i)) THEN [i |-> i, out |-> qus, cmds |-> cmds, err |-> ""]
    ELSE QueriesLoop(res, i + 1, Append(qus, QueryOf(LineAt(res, i))),
                     Append(cmds, "SHOW QUERY " \o QueryOf(LineAt(res, i)).Name))

LsQueries(res, st) ==
    LET r == QueriesLoop(res, st.i + 1, st.qus, st.cmds)
    IN  IF r.err # "" THEN [st EXCEPT !.err = r.err, !.i = r.i, !.cmds = r.cmds]
        ELSE [st EXCEPT !.qus = r.out, !.cmds = r.cmds, !.i = r.i + 1]

UDTOf(line) ==
    LET udtName == RstripWs(Slice(line, Find(line, "- ") + 2, Find(line, "(")))
    IN  [Name |-> udtName,
         Statement |-> "TYPEDEF TUPLE <" \o Slice(line, Find(line, "(") + 1, -1)
                       \o "> " \o udtName]

RECURSIVE UDTsLoop(_, _, _)
UDTsLoop(res, i, udts) ==
    IF i >= Len(res) THEN [i |-> i, out |-> udts, err |-> "IndexError"]
    ELSE IF ~IsBulleted(LineAt(res, i)) THEN [i |-> i, out |-> udts, err |-> ""]
    ELSE UDTsLoop(res, i + 1, Append(udts, UDTOf(LineAt(res, i))))

LsUDTs(res, st) ==
    LET r == UDTsLoop(res, st.i + 1, st.udts)
    IN  IF r.err # "" THEN [st EXCEPT !.err = r.err, !.i = r.i]
        ELSE [st EXCEPT !.udts = r.out, !.i = r.i + 1]

DataSourceOf(line) ==
    LET dsDetails == SplitWs(SliceFrom(line, Find(line, "- ") + 2))
    IN  [Name |-> dsDetails[2], Type |-> dsDetails[1], Details |-> dsDetails[3],
         Statement |-> "CREATE DATA_SOURCE " \o Upper(dsDetails[1]) \o " " \o dsDetails[2]
                       \o " = \"" \o Replace(Rstrip(LstripChars(dsDetails[3], {"("}), {")"}), "\"", "'")
                       \o "\""]

RECURSIVE DataSourcesLoop(_, _, _)
DataSourcesLoop(res, i, dss) ==
    IF i >= Len(res) THEN [i |-> i, out |-> dss, err |-> "IndexError"]
    ELSE IF ~IsBulleted(LineAt(res, i)) THEN [i |-> i, out |-> dss, err |-> ""]
    ELSE IF Len(SplitWs(SliceFrom(LineAt(res, i), Find(LineAt(res, i), "- ") + 2))) < 3
         THEN [i |-> i, out |-> dss, err |-> "IndexError"]
    ELSE DataSourcesLoop(res, i + 1, Append(dss, DataSourceOf(LineAt(res, i))))

LsDataSources(res, st) ==
    LET r == DataSourcesLoop(res, st.i + 1, st.dss)
    IN  IF r.err # "" THEN [st EXCEPT !.err = r.err, !.i = r.i]
        ELSE [st EXCEPT !.dss = r.out, !.i = r.i + 1]

\* else: pass
\* the line after an ignored line is passed over with it
LsIgnoreTwo(res, st) == [st EXCEPT !.i = @ + 2]

LsIgnore(res, st) == [st EXCEPT !.i = @ + 1]

\* which branch of the if / elif chain takes the line
LsBranch(line) ==
    IF IsVertexLine(line) THEN "vertex"
    ELSE IF IsIndexesLine(line) THEN "indexes"
    ELSE IF IsEdgeLine(line) THEN "edge"
    ELSE IF IsLoadingJobLine(line) THEN "loadingjob"
    ELSE IF IsSchemaChangeJobLine(line) THEN "schemachangejob"
    ELSE IF IsQueriesLine(line) THEN "queries"
    ELSE IF IsUDTsLine(line) THEN "udts"
    ELSE IF IsDataSourcesLine(line) THEN "datasources"
    ELSE "ignore"

\* one iteration of while i < len(res)
LsIterate(res, st) ==
    LET b == LsBranch(LineAt(res, st.i))
    IN  CASE b = "vertex" -> LsVertex(res, st)
          [] b = "indexes" -> LsIndexes(res, st)
          [] b = "edge" -> LsEdge(res, st)
          [] b = "loadingjob" -> LsLoadingJob(res, st)
          [] b = "schemachangejob" -> LsSchemaChangeJob(res, st)
          [] b = "queries" -> LsQueries(res, st)
          [] b = "udts" -> LsUDTs(res, st)
          [] b = "datasources" -> LsDataSources(res, st)
          [] OTHER -> LsIgnore(res, st)

LsRunning(res, st) == st.err = "" /\ st.i < Len(res)

\* the whole while loop
RECURSIVE LsLoop(_, _)
LsLoop(res, st) == IF LsRunning(res, st) THEN LsLoop(res, LsIterate(res, st)) ELSE st

\* the dict _ls returns, which depends on the scope in use
LsReturn(st, graphName) ==
    IF graphName = GLOBAL
    THEN [VertexTypes |-> st.vts, Indexes |-> st.ixs, EdgeTypes |-> st.ets,
          DataSources |-> st.dss, SchemaChangeJobs |-> st.scjs, UserDefinedTypes |-> st.udts]
    ELSE [VertexTypes |-> st.vts, Indexes |-> st.ixs, EdgeTypes |-> st.ets,
          Queries |-> st.qus, DataSources |-> st.dss, LoadingJobs |-> st.ljs,
          SchemaChangeJobs |-> st.scjs, Tags |-> <<>>]

(***************************************************************************)
(* Python dict primitives: a dict is a function on its keys.               *)
(***************************************************************************)
EmptyDict == <<>>

HasKey(d, k) == k \in DOMAIN d

\* d[k] = v
SetKey(d, k, v) == [x \in DOMAIN d \cup {k} |-> IF x = k THEN v ELSE d[x]]

\* d.pop(k)
PopKey(d, k) == [x \in DOMAIN d \ {k} |-> d[x]]

\* a.update(b): the keys of b are set in a, the other keys of a stay
DictUpdateDup(a, b) ==
    [x \in DOMAIN a \cup DOMAIN b |->
        IF x \in DOMAIN b
        THEN (IF x = "Attributes" /\ x \in DOMAIN a THEN a[x] \o b[x] ELSE b[x])
        ELSE a[x]]

DictUpdate(a, b) ==
    [x \in DOMAIN a \cup DOMAIN b |-> IF x \in DOMAIN b THEN b[x] ELSE a[x]]

\* the names of a collection, in order, and as a set
NamesOf(coll) == [k \in 1..Len(coll) |-> coll[k].Name]

NameSet(coll) == {coll[k].Name : k \in 1..Len(coll)}

\* no two records of the collection share a name
UniqueNames(coll) == \A j, k \in 1..Len(coll) : coll[j].Name = coll[k].Name => j = k

(***************************************************************************)
(* _getSchema, the enrichment of the LS scrape (lines 531-577).            *)
(***************************************************************************)
\* a payload record whose name the collection does not have is appended
MergeTypeAppend(ret, vt2) ==
    LET hits == {k \in 1..Len(ret) : ret[k].Name = vt2.Name}
    IN  IF hits = {} THEN Append(ret, vt2)
        ELSE [ret EXCEPT ![MinOf(hits)] = DictUpdate(@, vt2)]

\* for vt in ret[VTS]: if vt["Name"] == vt2["Name"]: vt.update(vt2); ...; break
MergeType(ret, vt2) ==
    LET hits == {k \in 1..Len(ret) : ret[k].Name = vt2.Name}
    IN  IF hits = {} THEN ret
        ELSE [ret EXCEPT ![MinOf(hits)] = DictUpdate(@, vt2)]

\* for vt2 in vts2: ...
RECURSIVE MergeTypes(_, _)
MergeTypes(ret, vts2) ==
    IF vts2 = <<>> THEN ret
    ELSE MergeTypes(MergeType(ret, vts2[1]), Tail(vts2))

\* the global collection is left as it is
MergeGlobalTypeSkip(glob, ret, vt2) == glob

\* for gvt in self.graphs[GLOBAL][SCH][VTS]: if gvt["Name"] == vt2["Name"]:
\* gvt.update(vt2) -- reached only when the local collection holds the name
MergeGlobalType(glob, ret, vt2) ==
    IF \E k \in 1..Len(ret) : ret[k].Name = vt2.Name
    THEN [k \in 1..Len(glob) |->
            IF glob[k].Name = vt2.Name THEN DictUpdate(glob[k], vt2) ELSE glob[k]]
    ELSE glob

RECURSIVE MergeGlobalTypes(_, _, _)
MergeGlobalTypes(glob, ret, vts2) ==
    IF vts2 = <<>> THEN glob
    ELSE MergeGlobalTypes(MergeGlobalType(glob, ret, vts2[1]),
                          MergeType(ret, vts2[1]), Tail(vts2))

\* getEndpoints(dynamic=True): the endpoints whose key matches
\* ^GET /query/<graphName>; eps is the reply in key order
RECURSIVE GetEndpointsDynamic(_, _)
GetEndpointsDynamic(eps, graphName) ==
    IF eps = <<>> THEN <<>>
    ELSE (IF StartsWith(eps[1].key, "GET /query/" \o graphName) THEN <<eps[1]>> ELSE <<>>)
         \o GetEndpointsDynamic(Tail(eps), graphName)

\* the query name an endpoint is for: params["query"]["default"]
EndpointQuery(ep) == ep.parameters["query"]["default"]

\* the fields an endpoint gives a query record
EndpointFields(ep) ==
    [Parameters |-> PopKey(ep.parameters, "query"),
     Endpoint |-> Split(ep.key, " ")[2],
     Method |-> Split(ep.key, " ")[1]]

\* the mutants of MergeQuery: the REST-only query is not added / always appended
MergeQueryNoAdd(qus, ep) ==
    LET hits == {k \in 1..Len(qus) : qus[k].Name = EndpointQuery(ep)}
    IN  IF hits = {} THEN qus
        ELSE [qus EXCEPT ![MinOf(hits)] = DictUpdate(@, EndpointFields(ep))]

\* the body of for ep in eps: find the query by name, add it when absent,
\* then set Parameters, Endpoint and Method
MergeQuery(qus, ep) ==
    LET hits == {k \in 1..Len(qus) : qus[k].Name = EndpointQuery(ep)}
    IN  IF hits = {}
        THEN Append(qus, DictUpdate([Name |-> EndpointQuery(ep)], EndpointFields(ep)))
        ELSE [qus EXCEPT ![MinOf(hits)] = DictUpdate(@, EndpointFields(ep))]

RECURSIVE MergeQueries(_, _)
MergeQueries(qus, eps) ==
    IF eps = <<>> THEN qus
    ELSE MergeQueries(MergeQuery(qus, eps[1]), Tail(eps))

(***************************************************************************)
(* The TigerGraph server.  Its metadata is a function of its epoch, which  *)
(* a schema change on the server advances.                                 *)
(***************************************************************************)
MaxEpoch == 2

\* the graphs of the server
ServerGraphs == {"g1", "g2"}

\* the names useGraph is called with: the graphs, the global scope, no graph
UseGraphNames == {"g1", "g2", "GLOBAL", "nope"}

\* LS in the global scope
GsqlLsGlobal(e) ==
    << "Vertex Types:",
       "  - VERTEX v1(PRIMARY_ID id STRING)" >>
    \o (IF e >= 2 THEN << "  - VERTEX v2(PRIMARY_ID id INT)" >> ELSE << >>)
    \o << "Edge Types:",
          "  - DIRECTED EDGE e1(FROM v1, TO v1)",
          "Graphs:",
          "  - Graph g1(v1:v, e1:e)",
          "  - Graph g2(v1:v)",
          "User defined tuples:",
          "  - t1(a int)",
          "" >>

\* LS in graph g1
GsqlLsG1(e) ==
    << "---- Graph g1",
       "Vertex Types:",
       "  - VERTEX v1(PRIMARY_ID id STRING)",
       "  - VERTEX v3(PRIMARY_ID id INT)",
       "Edge Types:",
       "  - DIRECTED EDGE e1(FROM v1, TO v1)",
       "Jobs:",
       "Queries:",
       "  - q1(string p)" >>
    \o (IF e >= 2 THEN << "  - q2()" >> ELSE << >>)
    \o << "" >>

\* LS in graph g2: from epoch 2 on the reply ends inside the index block
GsqlLsG2(e) ==
    << "---- Graph g2",
       "Vertex Types:",
       "  - VERTEX v1(PRIMARY_ID id STRING)",
       "Indexes:",
       "  - ix1:v1(id)" >>
    \o (IF e >= 2 THEN << >> ELSE << "" >>)

GsqlLs(scope, e) ==
    IF scope = GLOBAL THEN GsqlLsGlobal(e)
    ELSE IF scope = "g1" THEN GsqlLsG1(e)
    ELSE GsqlLsG2(e)

\* GET /gsqlserver/gsql/schema?graph=<g>
RestSchema(g, e) ==
    [VertexTypes |->
        << [Name |-> "v1", PrimaryId |-> "id",
            Attributes |-> IF e >= 2 /\ g = "g1" THEN <<"a1", "a2">> ELSE <<"a1">>],
           [Name |-> "v9", PrimaryId |-> "id", Attributes |-> <<>>] >>,
     EdgeTypes |->
        IF g = "g1"
        THEN << [Name |-> "e1", IsDirected |-> TRUE,
                 FromVertexTypeName |-> "v1", ToVertexTypeName |-> "v1"] >>
        ELSE << >>]

\* GET /endpoints/<g>?dynamic=true, in key order
RestEndpoints(g, e) ==
    IF g = "g1"
    THEN << [key |-> "GET /query/g1/q1",
             parameters |-> [query |-> [default |-> "q1"], p |-> [type |-> "STRING"]]],
            [key |-> "GET /query/g2/q7",
             parameters |-> [query |-> [default |-> "q7"]]],
            [key |-> "GET /query/g1/q3",
             parameters |-> [query |-> [default |-> "q3"]]] >>
    ELSE << >>

\* GET /graph/<g>/vertices/dummy: the "version" / "schema" entry of the reply
RestSchemaVersion(g, e) == e

(***************************************************************************)
(* The connection object and the call in progress.                         *)
(***************************************************************************)
VARIABLES
    graphName,   \* self.graphName: the current graph
    graphs,      \* self.graphs: graph name -> dict with Secret, ApiToken, Schema
    restToken,   \* the token installed by self.conn.Rest.setToken
    epoch,       \* the epoch of the server's metadata
    pc,          \* where the call in progress stands; "idle" between calls
    frame,       \* the call in progress (op) and its locals: force, graphName, ret
    log,         \* the GSQL commands and REST requests the call has issued
    result,      \* how the call ended: returned (with its value) or raised
    pre,         \* self.graphs and self.graphName when the call started
    udts         \* self.udts: its own list, or the cached global UDT list itself

connVars == <<graphName, graphs, restToken, epoch, pc, frame, log, result, pre, udts>>

SCH == "Schema"

SEC == "Secret"

TOK == "ApiToken"

NoFrame ==
    [op |-> "", force |-> FALSE, graphName |-> "", apiToken |-> "", ret |-> EmptyDict,
     args |-> EmptyDict]

NoResult == [status |-> "none"]

NoPre == [graphs |-> EmptyDict, graphName |-> ""]

Returned(v) == [status |-> "returned", value |-> v]

Raised(e) == [status |-> "raised", exc |-> e]

\* a log entry: the command or request, and the scope the session is in
Cmd(c, scope) == [cmd |-> c, scope |-> scope]

RECURSIVE CmdsIn(_, _)
CmdsIn(cmds, scope) ==
    IF cmds = <<>> THEN <<>> ELSE <<Cmd(cmds[1], scope)>> \o CmdsIn(Tail(cmds), scope)

\* __init__(graphname=g): lines 111-124, neither secret nor apiToken given
InitGraphs(g) ==
    SetKey([x \in {GLOBAL} |-> EmptyDict], g, [Secret |-> "", ApiToken |-> ""])

(***************************************************************************)
(* useGlobal and useGraph, as functions of the connection state            *)
(* c = [graphName, graphs, restToken]; ok tells whether the GSQL command   *)
(* went through.  The result carries exc, "" when the call returned.       *)
(***************************************************************************)
ConnOf(gn, gs, tok) == [graphName |-> gn, graphs |-> gs, restToken |-> tok, exc |-> ""]

\* useGlobal(): USE GLOBAL, then graphName = conn.Gsql.graph or GLOBAL
UseGlobalOn(c, ok) ==
    IF ~ok THEN [c EXCEPT !.exc = "TransportError"]
    ELSE [c EXCEPT !.graphName = GLOBAL]

\* the first line of the reply to USE GRAPH <name>
GsqlUseGraph(name) ==
    IF name \in ServerGraphs THEN "Using graph '" \o name \o "'"
    ELSE "Graph '" \o name \o "' does not exist."

\* the token kept for the graph is dropped when none is given
TokensForReset(d, apiToken) ==
    IF apiToken # "" THEN SetKey(SetKey(d, SEC, ""), TOK, apiToken)
    ELSE SetKey(SetKey(d, SEC, ""), TOK, "")

\* lines 651-663: the token kept for the graph
TokensFor(d, apiToken) ==
    IF apiToken # "" THEN SetKey(SetKey(d, SEC, ""), TOK, apiToken)
    ELSE IF HasKey(d, TOK) THEN d
    ELSE SetKey(SetKey(d, SEC, ""), TOK, "")

\* the graph is taken as current and entered into self.graphs before the
\* reply is looked at
UseGraphOnEager(c, name, apiToken, ok) ==
    IF Upper(name) = GLOBAL THEN UseGlobalOn(c, ok)
    ELSE IF ~ok THEN [c EXCEPT !.exc = "TransportError"]
    ELSE LET gs1 == IF HasKey(c.graphs, name) THEN c.graphs
                    ELSE SetKey(c.graphs, name, EmptyDict)
             gs2 == [gs1 EXCEPT ![name] = TokensFor(@, apiToken)]
         IN  IF ~Contains(GsqlUseGraph(name), "Using graph ")
             THEN [c EXCEPT !.graphName = name, !.graphs = gs2,
                            !.exc = "TigerGraphException: " \o GsqlUseGraph(name)]
             ELSE [c EXCEPT !.graphName = name, !.graphs = gs2,
                            !.restToken = gs2[name][TOK]]

\* useGraph(name, apiToken=apiToken); the exception carries ret[0]
UseGraphOn(c, name, apiToken, ok) ==
    IF Upper(name) = GLOBAL THEN UseGlobalOn(c, ok)
    ELSE IF ~ok THEN [c EXCEPT !.exc = "TransportError"]
    ELSE IF ~Contains(GsqlUseGraph(name), "Using graph ")
         THEN [c EXCEPT !.exc = "TigerGraphException: " \o GsqlUseGraph(name)]
    ELSE LET gs1 == IF HasKey(c.graphs, name) THEN c.graphs
                    ELSE SetKey(c.graphs, name, EmptyDict)
             gs2 == [gs1 EXCEPT ![name] = TokensFor(@, apiToken)]
         IN  [c EXCEPT !.graphName = name, !.graphs = gs2,
                       !.restToken = gs2[name][TOK]]

(***************************************************************************)
(* getSchema(force), lines 707-716, and _getSchema, lines 519-582.         *)
(***************************************************************************)
\* line 708: SCH not in self.graphs[GLOBAL] or force
GlobalRefreshOnForceOnly(gs, force) == force

GlobalRefreshNeeded(gs, force) == ~HasKey(gs[GLOBAL], SCH) \/ force

\* lines 712-713: the current graph is not GLOBAL and is not cached, or force
LocalRefreshIfAbsent(gn, gs, force) == gn # GLOBAL /\ ~HasKey(gs[gn], SCH)

LocalRefreshNeeded(gn, gs, force) == gn # GLOBAL /\ (~HasKey(gs[gn], SCH) \/ force)

\* _ls() run to its end on the reply to LS
LsRun(scope, e) == LsLoop(GsqlLs(scope, e), LsStart)

\* lines 532-554 on the local collections
EnrichTypes(ret, ret2) ==
    [ret EXCEPT !.VertexTypes = MergeTypes(@, ret2.VertexTypes),
                !.EdgeTypes = MergeTypes(@, ret2.EdgeTypes)]

\* lines 540-542 and 551-553 on the cached global collections
EnrichGlobal(glob, ret, ret2) ==
    [glob EXCEPT !.VertexTypes = MergeGlobalTypes(@, ret.VertexTypes, ret2.VertexTypes),
                 !.EdgeTypes = MergeGlobalTypes(@, ret.EdgeTypes, ret2.EdgeTypes)]

\* lines 557-577
EnrichQueries(ret, eps) == [ret EXCEPT !.Queries = MergeQueries(@, eps)]

(***************************************************************************)
(* The state of the scans and of the pure functions checked on their own.  *)
(***************************************************************************)
VARIABLES
    lsRes,       \* _ls: res, the lines of the reply to LS
    lsScope,     \* _ls: self.graphName during the scan
    ls,          \* _ls: the locals (cursor, collections)
    lsPc,        \* _ls: "scan", "returned" or "raised"
    lsFrom,      \* _ls: the cursor when the last iteration started
    lsRet,       \* _ls: the value returned
    usRes,       \* _getUsers: res, the lines of the reply to SHOW USER
    us,          \* _getUsers: the locals (cursor, us)
    usPc,        \* _getUsers: "scan", "returned" or "raised"
    etSchema,    \* edge accessors: the EdgeTypes collection of the cached schema
    etCall,      \* edge accessors: the last call and what it returned
    mg,          \* the enrichment on its own: text records, payloads, merges done
    rd           \* a second thread reading the connection: its call and what it got

scanVars == <<lsRes, lsScope, ls, lsPc, lsFrom, lsRet>>

userVars == <<usRes, us, usPc>>

edgeVars == <<etSchema, etCall>>

mergeVars == <<mg>>

auxVars == <<rd>>

vars == <<connVars, scanVars, userVars, edgeVars, mergeVars, auxVars>>

Unused == "unused"

ConnUnused ==
    /\ graphName = Unused /\ graphs = Unused /\ restToken = Unused /\ epoch = 0
    /\ pc = Unused /\ frame = Unused /\ log = Unused /\ result = Unused /\ pre = Unused
    /\ udts = Unused

ScanUnused ==
    /\ lsRes = Unused /\ lsScope = Unused /\ ls = Unused /\ lsPc = Unused
    /\ lsFrom = 0 /\ lsRet = Unused

UserUnused == usRes = Unused /\ us = Unused /\ usPc = Unused

EdgeUnused == etSchema = Unused /\ etCall = Unused

MergeUnused == mg = Unused

ReaderUnused == rd = Unused

(***************************************************************************)
(* self.udts and _getUDTs (lines 403-427).  After line 416 self.udts is    *)
(* the list object of the cached global Schema, so what is appended to it  *)
(* or set in its records is changed in the cache; a later global scrape    *)
(* stores a new list in the cache and self.udts keeps the old one.         *)
(***************************************************************************)
\* line 133: self.udts = []
NoUdts == [alias |-> FALSE, own |-> <<>>]

\* the value of self.udts
SelfUdts(gs, u) == IF u.alias THEN gs[GLOBAL][SCH].UserDefinedTypes ELSE u.own

\* self.udts after self.graphs[GLOBAL][SCH] is given a new dict
Detached(gs, u) ==
    IF u.alias THEN [alias |-> FALSE, own |-> gs[GLOBAL][SCH].UserDefinedTypes] ELSE u

\* GET /gsqlserver/gsql/udtlist: t1 at first, t2 in its place after the change
RestUdtList(e) ==
    IF e = 1
    THEN << [name |-> "t1", fields |-> << [fieldName |-> "a", fieldType |-> "INT"] >>] >>
    ELSE << [name |-> "t2", fields |-> << [fieldName |-> "b", fieldType |-> "STRING"] >>] >>

\* a UDT of the JSON list is appended whether or not the list holds its name
MergeUDTAlwaysAppend(lst, u1) ==
    Append([k \in 1..Len(lst) |->
               IF lst[k].Name = u1.name THEN SetKey(lst[k], "Fields", u1.fields) ELSE lst[k]],
           [Name |-> u1.name, Fields |-> u1.fields, Statement |-> ""])

\* lines 419-427, the body of for u1 in res
MergeUDT(lst, u1) ==
    IF \E k \in 1..Len(lst) : lst[k].Name = u1.name
    THEN [k \in 1..Len(lst) |->
            IF lst[k].Name = u1.name THEN SetKey(lst[k], "Fields", u1.fields) ELSE lst[k]]
    ELSE Append(lst, [Name |-> u1.name, Fields |-> u1.fields, Statement |-> ""])

RECURSIVE MergeUDTs(_, _)
MergeUDTs(lst, res) ==
    IF res = <<>> THEN lst ELSE MergeUDTs(MergeUDT(lst, res[1]), Tail(res))

(***************************************************************************)
(* Spec: a connection, used by one thread.  The calls are useGraph,        *)
(* useGlobal and getSchema; getSchema advances from one GSQL command or    *)
(* REST request to the next, and each of them can fail.                    *)
(***************************************************************************)
\* __init__(graphname=g), before any call
InitConn(g) ==
    /\ graphName = g
    /\ graphs = InitGraphs(g)
    /\ restToken = ""
    /\ epoch = 1
    /\ pc = "idle"
    /\ frame = NoFrame
    /\ log = <<>>
    /\ result = NoResult
    /\ pre = NoPre
    /\ udts = NoUdts
    /\ ScanUnused /\ UserUnused /\ EdgeUnused /\ MergeUnused

Init == (\E g \in {"g1", GLOBAL} : InitConn(g)) /\ ReaderUnused
    /\ ReaderUnused

OtherUnchanged == UNCHANGED <<scanVars, userVars, edgeVars, mergeVars, auxVars>>

\* a call starts: the log is empty, the cache and the current graph are noted
Begin(next, fr) ==
    /\ pc = "idle"
    /\ pc' = next
    /\ frame' = fr
    /\ log' = <<>>
    /\ result' = NoResult
    /\ pre' = [graphs |-> graphs, graphName |-> graphName]

\* the call in progress raises e
Raise(e) == pc' = "done" /\ result' = Raised(e)

\* the connection takes the state c
Become(c) == graphName' = c.graphName /\ graphs' = c.graphs /\ restToken' = c.restToken

\* useGraph(name, apiToken=apiToken), lines 641-665
UseGraph(name, apiToken, ok) ==
    LET c == UseGraphOn(ConnOf(graphName, graphs, restToken), name, apiToken, ok)
    IN  /\ pc = "idle"
        /\ Become(c)
        /\ pc' = "done"
        /\ frame' = [NoFrame EXCEPT !.op = "useGraph", !.graphName = name,
                                    !.apiToken = apiToken]
        /\ pre' = [graphs |-> graphs, graphName |-> graphName]
        /\ log' = << Cmd(IF Upper(name) = GLOBAL THEN "USE GLOBAL" ELSE "USE GRAPH " \o name,
                        graphName) >>
        /\ result' = IF c.exc = "" THEN Returned("None") ELSE Raised(c.exc)
        /\ UNCHANGED epoch
        /\ UNCHANGED udts
        /\ OtherUnchanged

\* useGlobal(), lines 675-678
UseGlobal(ok) ==
    LET c == UseGlobalOn(ConnOf(graphName, graphs, restToken), ok)
    IN  /\ pc = "idle"
        /\ Become(c)
        /\ pc' = "done"
        /\ frame' = [NoFrame EXCEPT !.op = "useGlobal"]
        /\ pre' = [graphs |-> graphs, graphName |-> graphName]
        /\ log' = << Cmd("USE GLOBAL", graphName) >>
        /\ result' = IF c.exc = "" THEN Returned("None") ELSE Raised(c.exc)
        /\ UNCHANGED epoch
        /\ UNCHANGED udts
        /\ OtherUnchanged

\* getUDTs(force), lines 1151-1156, with _getUDTs, lines 414-427
GetUDTs(force, ok) ==
    LET fetch == SelfUdts(graphs, udts) = <<>> \/ force
        merged == MergeUDTs(graphs[GLOBAL][SCH].UserDefinedTypes, RestUdtList(epoch))
    IN  /\ pc = "idle"
        /\ pc' = "done"
        /\ frame' = [NoFrame EXCEPT !.op = "getUDTs", !.force = force]
        /\ pre' = [graphs |-> graphs, graphName |-> graphName]
        /\ IF ~fetch
           THEN /\ result' = Returned(NamesOf(SelfUdts(graphs, udts)))
                /\ log' = <<>>
                /\ UNCHANGED <<graphs, udts>>
           ELSE IF ~HasKey(graphs[GLOBAL], SCH)
           THEN /\ result' = Raised("KeyError")
                /\ log' = <<>>
                /\ UNCHANGED <<graphs, udts>>
           ELSE /\ log' = << Cmd("GET /gsqlserver/gsql/udtlist", graphName) >>
                /\ udts' = [alias |-> TRUE, own |-> <<>>]
                /\ IF ~ok
                   THEN result' = Raised("TransportError") /\ UNCHANGED graphs
                   ELSE /\ graphs' = [graphs EXCEPT ![GLOBAL][SCH].UserDefinedTypes = merged]
                        /\ result' = Returned(NamesOf(merged))
        /\ UNCHANGED <<graphName, restToken, epoch>>
        /\ OtherUnchanged


\* lines 718-730: getSchemaVersion(); None for GLOBAL, otherwise the Version
\* of the cached schema of the current graph (KeyError when there is none)
GetSchemaVersion ==
    /\ pc = "idle"
    /\ pc' = "done"
    /\ frame' = [NoFrame EXCEPT !.op = "getSchemaVersion"]
    /\ pre' = [graphs |-> graphs, graphName |-> graphName]
    /\ log' = <<>>
    /\ result' = IF graphName = GLOBAL THEN Returned("None")
                 ELSE IF ~HasKey(graphs[graphName], SCH) THEN Raised("KeyError")
                 ELSE Returned(graphs[graphName][SCH].Version)
    /\ UNCHANGED <<graphName, graphs, restToken, epoch>>
    /\ UNCHANGED udts
    /\ OtherUnchanged

\* getSchema(force) is called: lines 708-709 decide on the global scrape
GetSchemaCall(force) ==
    /\ Begin(IF GlobalRefreshNeeded(graphs, force) THEN "g_useGlobal"
             ELSE IF LocalRefreshNeeded(graphName, graphs, force) THEN "l_ls"
             ELSE "return",
             [op |-> "getSchema", force |-> force, graphName |-> "", ret |-> EmptyDict])
    /\ UNCHANGED <<graphName, graphs, restToken, epoch>>
    /\ UNCHANGED udts
    /\ OtherUnchanged

\* _getSchema(True), lines 520-521: graphName = self.graphName; self.useGlobal()
GsUseGlobal(ok) ==
    LET c == UseGlobalOn(ConnOf(graphName, graphs, restToken), ok)
    IN  /\ pc = "g_useGlobal"
        /\ Become(c)
        /\ log' = Append(log, Cmd("USE GLOBAL", graphName))
        /\ frame' = [frame EXCEPT !.graphName = graphName]
        /\ IF c.exc = "" THEN pc' = "g_ls" /\ UNCHANGED result ELSE Raise(c.exc)
        /\ UNCHANGED <<epoch, pre>>
        /\ UNCHANGED udts
        /\ OtherUnchanged

\* _getSchema(True), lines 523-525: ret = self._ls(); self.graphs[GLOBAL][SCH] = ret
GsGlobalLs(ok) ==
    LET st == LsRun(graphName, epoch)
    IN  /\ pc = "g_ls"
        /\ IF ~ok
           THEN /\ Raise("TransportError")
                /\ log' = Append(log, Cmd("LS", graphName))
                /\ UNCHANGED <<graphs, udts>>
           ELSE /\ log' = log \o CmdsIn(st.cmds, graphName)
                /\ IF st.err # ""
                   THEN Raise(st.err) /\ UNCHANGED <<graphs, udts>>
                   ELSE /\ graphs' = [graphs EXCEPT ![GLOBAL] =
                                         SetKey(@, SCH, LsReturn(st, graphName))]
                        /\ udts' = Detached(graphs, udts)
                        /\ pc' = "g_useGraph"
                        /\ UNCHANGED result
        /\ UNCHANGED <<graphName, restToken, epoch, frame, pre>>
        /\ OtherUnchanged

\* _getSchema(True), line 527: self.useGraph(graphName); then lines 712-714
GsRestoreGraph(ok) ==
    LET c == UseGraphOn(ConnOf(graphName, graphs, restToken), frame.graphName, "", ok)
    IN  /\ pc = "g_useGraph"
        /\ Become(c)
        /\ log' = Append(log, Cmd(IF Upper(frame.graphName) = GLOBAL THEN "USE GLOBAL"
                                  ELSE "USE GRAPH " \o frame.graphName, graphName))
        /\ IF c.exc # "" THEN Raise(c.exc)
           ELSE /\ pc' = IF LocalRefreshNeeded(c.graphName, c.graphs, frame.force)
                         THEN "l_ls" ELSE "return"
                /\ UNCHANGED result
        /\ UNCHANGED <<epoch, frame, pre>>
        /\ UNCHANGED udts
        /\ OtherUnchanged

\* _getSchema(), line 529: ret = self._ls()
GsLocalLs(ok) ==
    LET st == LsRun(graphName, epoch)
    IN  /\ pc = "l_ls"
        /\ IF ~ok
           THEN /\ Raise("TransportError")
                /\ log' = Append(log, Cmd("LS", graphName))
                /\ UNCHANGED frame
           ELSE /\ log' = log \o CmdsIn(st.cmds, graphName)
                /\ IF st.err # ""
                   THEN Raise(st.err) /\ UNCHANGED frame
                   ELSE /\ frame' = [frame EXCEPT !.ret = LsReturn(st, graphName)]
                        /\ pc' = "l_json"
                        /\ UNCHANGED result
        /\ UNCHANGED <<graphName, graphs, restToken, epoch, pre>>
        /\ UNCHANGED udts
        /\ OtherUnchanged

\* _getSchema(), lines 532-554: the JSON schema is fetched and merged into ret
\* and, in place, into the cached global records
GsLocalJson(ok) ==
    LET ret2 == RestSchema(graphName, epoch)
        \* self.graphs[GLOBAL][SCH] is read when a payload record has a match
        matched == \E c \in {"VertexTypes", "EdgeTypes"} :
                      NameSet(ret2[c]) \cap NameSet(frame.ret[c]) # {}
    IN  /\ pc = "l_json"
        /\ log' = Append(log, Cmd("GET /gsqlserver/gsql/schema", graphName))
        /\ IF ~ok
           THEN Raise("TransportError") /\ UNCHANGED <<frame, graphs>>
           ELSE IF ~HasKey(graphs[GLOBAL], SCH)
           THEN IF matched
                THEN Raise("KeyError") /\ UNCHANGED <<frame, graphs>>
                ELSE /\ frame' = [frame EXCEPT !.ret = EnrichTypes(@, ret2)]
                     /\ pc' = "l_eps"
                     /\ UNCHANGED <<result, graphs>>
           ELSE /\ frame' = [frame EXCEPT !.ret = EnrichTypes(@, ret2)]
                /\ graphs' = [graphs EXCEPT ![GLOBAL][SCH] = EnrichGlobal(@, frame.ret, ret2)]
                /\ pc' = "l_eps"
                /\ UNCHANGED result
        /\ UNCHANGED <<graphName, restToken, epoch, pre>>
        /\ UNCHANGED udts
        /\ OtherUnchanged

\* _getSchema(), lines 557-577: the endpoints are fetched and merged into ret
GsLocalEps(ok) ==
    LET eps == GetEndpointsDynamic(RestEndpoints(graphName, epoch), graphName)
    IN  /\ pc = "l_eps"
        /\ log' = Append(log, Cmd("GET /endpoints", graphName))
        /\ IF ~ok
           THEN Raise("TransportError") /\ UNCHANGED frame
           ELSE /\ frame' = [frame EXCEPT !.ret = EnrichQueries(@, eps)]
                /\ pc' = "l_ver"
                /\ UNCHANGED result
        /\ UNCHANGED <<graphName, graphs, restToken, epoch, pre>>
        /\ UNCHANGED udts
        /\ OtherUnchanged

\* _getSchema(), lines 580-582: the version probe, then the cache slot is set
GsLocalVersion(ok) ==
    /\ pc = "l_ver"
    /\ log' = Append(log, Cmd("GET /graph/vertices/dummy", graphName))
    /\ IF ~ok
       THEN Raise("TransportError") /\ UNCHANGED graphs
       ELSE /\ graphs' = [graphs EXCEPT ![graphName] =
                             SetKey(@, SCH, SetKey(frame.ret, "Version",
                                                   RestSchemaVersion(graphName, epoch)))]
            /\ pc' = "return"
            /\ UNCHANGED result
    /\ UNCHANGED <<graphName, restToken, epoch, frame, pre>>
    /\ UNCHANGED udts
    /\ OtherUnchanged

\* getSchema, line 716: return self.graphs[self.graphName][SCH]
GsReturn ==
    /\ pc = "return"
    /\ pc' = "done"
    /\ result' = IF HasKey(graphs[graphName], SCH)
                  THEN Returned(graphs[graphName][SCH])
                  ELSE Raised("KeyError")
    /\ UNCHANGED <<graphName, graphs, restToken, epoch, frame, log, pre>>
    /\ UNCHANGED udts
    /\ OtherUnchanged

\* the caller has the outcome; the connection is idle again
Finish ==
    /\ pc = "done"
    /\ pc' = "idle"
    /\ frame' = NoFrame
    /\ log' = <<>>
    /\ result' = NoResult
    /\ pre' = NoPre
    /\ UNCHANGED <<graphName, graphs, restToken, epoch>>
    /\ UNCHANGED udts
    /\ OtherUnchanged

\* a schema change on the server, between two calls of the client
ServerChange ==
    /\ pc = "idle"
    /\ epoch < MaxEpoch
    /\ epoch' = epoch + 1
    /\ UNCHANGED <<graphName, graphs, restToken, pc, frame, log, result, pre>>
    /\ UNCHANGED udts
    /\ OtherUnchanged

Next ==
    \/ \E name \in UseGraphNames, ok \in BOOLEAN : UseGraph(name, "", ok)
    \/ \E ok \in BOOLEAN : UseGlobal(ok)
    \/ GetSchemaVersion
    \/ \E force \in BOOLEAN : GetSchemaCall(force)
    \/ \E ok \in BOOLEAN : GsUseGlobal(ok)
    \/ \E ok \in BOOLEAN : GsGlobalLs(ok)
    \/ \E ok \in BOOLEAN : GsRestoreGraph(ok)
    \/ \E ok \in BOOLEAN : GsLocalLs(ok)
    \/ \E ok \in BOOLEAN : GsLocalJson(ok)
    \/ \E ok \in BOOLEAN : GsLocalEps(ok)
    \/ \E ok \in BOOLEAN : GsLocalVersion(ok)
    \/ GsReturn
    \/ Finish
    \/ ServerChange

Spec == Init /\ [][Next]_vars

(***************************************************************************)
(* SpecUdt: a connection on g1 whose thread calls getSchema and getUDTs.   *)
(***************************************************************************)
InitUdt == InitConn("g1") /\ ReaderUnused

NextUdt ==
    \/ \E force \in BOOLEAN, ok \in BOOLEAN : GetUDTs(force, ok)
    \/ \E force \in BOOLEAN : GetSchemaCall(force)
    \/ \E ok \in BOOLEAN : GsUseGlobal(ok)
    \/ \E ok \in BOOLEAN : GsGlobalLs(ok)
    \/ \E ok \in BOOLEAN : GsRestoreGraph(ok)
    \/ \E ok \in BOOLEAN : GsLocalLs(ok)
    \/ \E ok \in BOOLEAN : GsLocalJson(ok)
    \/ \E ok \in BOOLEAN : GsLocalEps(ok)
    \/ \E ok \in BOOLEAN : GsLocalVersion(ok)
    \/ GsReturn
    \/ Finish
    \/ ServerChange

SpecUdt == InitUdt /\ [][NextUdt]_vars

(***************************************************************************)
(* SpecConc: a connection on g1 shared by two threads.  One calls          *)
(* getSchema(force=True) again and again; the other calls getCurrentGraph  *)
(* and getSchema(force=False).  Nothing in the class orders the reads of   *)
(* the second thread against the writes of the first, so a read can fall   *)
(* between any two commands of the refresh.                                *)
(***************************************************************************)
NoReader == [pc |-> "idle", op |-> "", out |-> NoResult]

\* the reader found the cache slot empty and starts _getSchema itself
OwnRefresh == [status |-> "refreshes"]

ConnUnchanged == UNCHANGED <<connVars, scanVars, userVars, edgeVars, mergeVars>>

InitConc == InitConn("g1") /\ rd = NoReader

\* getCurrentGraph, line 689: return self.graphName
RdGetCurrentGraph ==
    /\ rd.pc = "idle"
    /\ rd' = [pc |-> "done", op |-> "getCurrentGraph", out |-> Returned(graphName)]
    /\ ConnUnchanged

\* getSchema(False) is called
RdGetSchema ==
    /\ rd.pc = "idle"
    /\ rd' = [pc |-> "r708", op |-> "getSchema", out |-> NoResult]
    /\ ConnUnchanged

\* line 708: if SCH not in self.graphs[GLOBAL] or force
Rd708 ==
    /\ rd.pc = "r708"
    /\ rd' = IF ~HasKey(graphs[GLOBAL], SCH)
             THEN [rd EXCEPT !.pc = "done", !.out = OwnRefresh]
             ELSE [rd EXCEPT !.pc = "r711"]
    /\ ConnUnchanged

\* line 711: if self.graphName != GLOBAL
Rd711 ==
    /\ rd.pc = "r711"
    /\ rd' = [rd EXCEPT !.pc = IF graphName # GLOBAL THEN "r712" ELSE "r716"]
    /\ ConnUnchanged

\* line 712: if SCH not in self.graphs[self.graphName] or force
Rd712 ==
    /\ rd.pc = "r712"
    /\ rd' = IF ~HasKey(graphs[graphName], SCH)
             THEN [rd EXCEPT !.pc = "done", !.out = OwnRefresh]
             ELSE [rd EXCEPT !.pc = "r716"]
    /\ ConnUnchanged

\* line 716: return self.graphs[self.graphName][SCH]
Rd716 ==
    /\ rd.pc = "r716"
    /\ rd' = [rd EXCEPT !.pc = "done",
                        !.out = IF HasKey(graphs[graphName], SCH)
                                THEN Returned(graphs[graphName][SCH])
                                ELSE Raised("KeyError")]
    /\ ConnUnchanged

\* the reader has the outcome
RdFinish ==
    /\ rd.pc = "done"
    /\ rd' = NoReader
    /\ ConnUnchanged

NextConc ==
    \/ \E force \in {TRUE} : GetSchemaCall(force)
    \/ \E ok \in BOOLEAN : GsUseGlobal(ok)
    \/ \E ok \in BOOLEAN : GsGlobalLs(ok)
    \/ \E ok \in BOOLEAN : GsRestoreGraph(ok)
    \/ \E ok \in BOOLEAN : GsLocalLs(ok)
    \/ \E ok \in BOOLEAN : GsLocalJson(ok)
    \/ \E ok \in BOOLEAN : GsLocalEps(ok)
    \/ \E ok \in BOOLEAN : GsLocalVersion(ok)
    \/ GsReturn
    \/ Finish
    \/ ServerChange
    \/ RdGetCurrentGraph
    \/ RdGetSchema
    \/ Rd708
    \/ Rd711
    \/ Rd712
    \/ Rd716
    \/ RdFinish

SpecConc == InitConc /\ [][NextConc]_vars

(***************************************************************************)
(* SpecUse: a connection whose thread switches between graphs, with and    *)
(* without a token of its own for the graph.                               *)
(***************************************************************************)
ApiTokens == {"", "t1", "t2"}

NextUse ==
    \/ \E name \in UseGraphNames, apiToken \in ApiTokens, ok \in BOOLEAN :
          UseGraph(name, apiToken, ok)
    \/ \E ok \in BOOLEAN : UseGlobal(ok)
    \/ Finish

SpecUse == Init /\ [][NextUse]_vars







(***************************************************************************)
(* Properties of getSchema, checked on Spec.                               *)
(***************************************************************************)
\* the cached Schema of every graph, as a list that is empty where there is none
SchemasOf(gs) == [g \in DOMAIN gs |-> IF HasKey(gs[g], SCH) THEN <<gs[g][SCH]>> ELSE <<>>]

GetSchemaEnded == pc = "done" /\ frame.op = "getSchema"

GetSchemaRaised == GetSchemaEnded /\ result.status = "raised"

GetSchemaReturned == GetSchemaEnded /\ result.status = "returned"

InLocalRefresh == pc \in {"l_ls", "l_json", "l_eps", "l_ver"}

\* what a forced refresh of graph g assembles at epoch e, step by step
FreshLocalText(g, e) == LsReturn(LsRun(g, e), g)

FreshLocal(g, e) ==
    SetKey(EnrichQueries(EnrichTypes(FreshLocalText(g, e), RestSchema(g, e)),
                         GetEndpointsDynamic(RestEndpoints(g, e), g)),
           "Version", RestSchemaVersion(g, e))

FreshGlobal(g, e) ==
    IF g = GLOBAL THEN LsReturn(LsRun(GLOBAL, e), GLOBAL)
    ELSE EnrichGlobal(LsReturn(LsRun(GLOBAL, e), GLOBAL), FreshLocalText(g, e),
                      RestSchema(g, e))

\* C2: when a schema refresh raises, the cached Schemas of all graphs are
\* what they were before the call: no cache slot is left partially updated.
C2_NoPartialCacheUpdate ==
    GetSchemaRaised => SchemasOf(graphs) = SchemasOf(pre.graphs)

\* C3: while the schema of a non-global graph is collected and merged, the
\* GLOBAL scope's Schema is already cached, with its vertex and edge type
\* collections, so the merge into the global records is well-defined.
C3_GlobalFirst ==
    InLocalRefresh =>
        /\ graphName # GLOBAL
        /\ HasKey(graphs[GLOBAL], SCH)
        /\ {"VertexTypes", "EdgeTypes"} \subseteq DOMAIN graphs[GLOBAL][SCH]

\* C3 witness: a call that found no cached global Schema has reached the
\* merge of the JSON payload into the local and global records
C3_Witness ==
    /\ pc = "l_json"
    /\ ~HasKey(pre.graphs[GLOBAL], SCH)
    /\ Cmd("LS", GLOBAL) \in {log[k] : k \in 1..Len(log)}

\* C4: getSchema(force=False) with both Schemas cached returns the cached
\* Schema of the current graph without any command or request and leaves the
\* cache alone; getSchema(force=True) that returns has issued LS in the
\* GLOBAL scope and in the current graph, and both cached Schemas are the
\* ones assembled from the server's current metadata.
C4_SchemaCaching ==
    /\ ( /\ GetSchemaEnded /\ ~frame.force
         /\ HasKey(pre.graphs[GLOBAL], SCH)
         /\ HasKey(pre.graphs[pre.graphName], SCH) )
       => /\ log = <<>>
          /\ graphs = pre.graphs
          /\ result = Returned(pre.graphs[pre.graphName][SCH])
    /\ ( GetSchemaReturned /\ frame.force )
       => /\ Cmd("LS", GLOBAL) \in {log[k] : k \in 1..Len(log)}
          /\ Cmd("LS", pre.graphName) \in {log[k] : k \in 1..Len(log)}
          /\ graphName = pre.graphName
          /\ graphs[GLOBAL][SCH] = FreshGlobal(graphName, epoch)
          /\ graphName # GLOBAL => graphs[graphName][SCH] = FreshLocal(graphName, epoch)
          /\ result = Returned(graphs[graphName][SCH])

\* C4 witness: a forced refresh of a non-global graph returned although
\* both Schemas were cached, after the server's metadata had changed
C4_Witness ==
    /\ GetSchemaReturned /\ frame.force
    /\ graphName # GLOBAL
    /\ HasKey(pre.graphs[GLOBAL], SCH)
    /\ HasKey(pre.graphs[graphName], SCH)
    /\ pre.graphs[graphName][SCH] # graphs[graphName][SCH]


(***************************************************************************)
(* SpecMerge: the enrichment of _getSchema on its own.  The local and the  *)
(* global collections are scraped from LS replies made of a few member     *)
(* lines, the JSON payload and the endpoints are drawn from small sets;    *)
(* the JSON payload is merged once or twice, then the endpoints.           *)
(***************************************************************************)
MaxPayload == 2

MaxEndpoints == 2

SeqsUpTo(S, n) == UNION {[1..k -> S] : k \in 0..n}

DupFreeSeqs(S, n) == {q \in SeqsUpTo(S, n) : \A a, b \in 1..Len(q) : q[a] = q[b] => a = b}

RECURSIVE Flatten(_)
Flatten(ss) == IF ss = <<>> THEN <<>> ELSE ss[1] \o Flatten(Tail(ss))

VertexLine(name) == "  - VERTEX " \o name \o "(PRIMARY_ID id STRING)"

EdgeLine(name) == "  - DIRECTED EDGE " \o name \o "(FROM v1, TO v1)"

QueryLine(name) == "  - " \o name \o "()"

\* the reply to LS listing the given vertex types, edge types and queries
LsReplyOf(vs, es, qs) ==
    << "Vertex Types:" >> \o [k \in 1..Len(vs) |-> VertexLine(vs[k])]
    \o << "Edge Types:" >> \o [k \in 1..Len(es) |-> EdgeLine(es[k])]
    \o << "Queries:" >> \o [k \in 1..Len(qs) |-> QueryLine(qs[k])]
    \o << "" >>

\* the records of the JSON schema payload
PayloadVertexTypes ==
    [Name : {"v1", "v9"}, PrimaryId : {"id"}, Attributes : {<<>>, <<"a1">>}]

PayloadEdgeTypes ==
    [Name : {"e1"}, IsDirected : {TRUE}, FromVertexTypeName : {"v1"},
     ToVertexTypeName : {"v1"}]

\* the installed endpoint of a query of graph g1
EndpointOf(name) ==
    [key |-> "GET /query/g1/" \o name,
     parameters |-> [query |-> [default |-> name], n |-> [type |-> "INT64"]]]

MergeStart(vs, es, qs, gvs, vts2, ets2, eps) ==
    LET ret == LsReturn(LsLoop(LsReplyOf(vs, es, qs), LsStart), "g1")
        glob == LsReturn(LsLoop(LsReplyOf(gvs, es, <<>>), LsStart), GLOBAL)
    IN  [ret |-> ret, glob |-> glob, text |-> ret,
         ret2 |-> [VertexTypes |-> vts2, EdgeTypes |-> ets2],
         eps |-> eps, n |-> 0, once |-> <<>>, stage |-> "json"]

InitMerge ==
    /\ \/ \E vs \in DupFreeSeqs({"v1", "v2"}, 2), es \in SeqsUpTo({"e1"}, 1),
             gvs \in SeqsUpTo({"v1"}, 1),
             vts2 \in SeqsUpTo(PayloadVertexTypes, MaxPayload),
             ets2 \in SeqsUpTo(PayloadEdgeTypes, 1) :
             mg = MergeStart(vs, es, <<>>, gvs, vts2, ets2, <<>>)
       \/ \E qs \in DupFreeSeqs({"q1", "q2"}, 2),
             rs \in DupFreeSeqs({"q2", "q3", "q4"}, MaxEndpoints) :
             mg = MergeStart(<<>>, <<>>, qs, <<>>, <<>>, <<>>,
                             [k \in 1..Len(rs) |-> EndpointOf(rs[k])])
    /\ ConnUnused /\ ScanUnused /\ UserUnused /\ EdgeUnused /\ ReaderUnused

\* lines 532-554, run on the payload once more than _getSchema does when
\* mg.n = 1
MergeJson ==
    /\ mg.stage = "json"
    /\ mg.n < 2
    /\ LET ret == EnrichTypes(mg.ret, mg.ret2)
           glob == EnrichGlobal(mg.glob, mg.ret, mg.ret2)
       IN  mg' = [mg EXCEPT !.ret = ret, !.glob = glob, !.n = @ + 1,
                            !.once = IF mg.n = 0 THEN <<[ret |-> ret, glob |-> glob]>>
                                     ELSE @]
    /\ UNCHANGED <<connVars, scanVars, userVars, edgeVars, auxVars>>

\* lines 557-577
MergeEndpoints ==
    /\ mg.stage = "json"
    /\ mg.n >= 1
    /\ mg' = [mg EXCEPT !.ret = EnrichQueries(@, mg.eps), !.stage = "done"]
    /\ UNCHANGED <<connVars, scanVars, userVars, edgeVars, auxVars>>

NextMerge ==
    \/ MergeJson
    \/ MergeEndpoints

SpecMerge == InitMerge /\ [][NextMerge]_vars

\* the last record of the payload with the given name
LastNamed(recs, name) ==
    recs[MaxOf({k \in 1..Len(recs) : recs[k].Name = name})]

\* the fields of the merged records are those of the scraped record,
\* overridden by the last payload record of the same name
MergedFrom(merged, text, payload) ==
    /\ Len(merged) = Len(text)
    /\ \A k \in 1..Len(merged) :
          IF text[k].Name \in NameSet(payload)
          THEN merged[k] = DictUpdate(text[k], LastNamed(payload, text[k].Name))
          ELSE merged[k] = text[k]

\* C1: after the endpoints are merged, the Queries collection holds exactly
\* the names of the text scrape and of the endpoints, each once; a name of
\* both holds the text fields and the REST fields, a name of the scrape only
\* holds the text fields only, a name of the endpoints only holds Name and
\* the REST fields.
C1_QueryMergeCompleteness ==
    mg.stage = "done" =>
        LET qus == mg.ret.Queries
            T == NameSet(mg.text.Queries)
            R == {EndpointQuery(mg.eps[k]) : k \in 1..Len(mg.eps)}
            textFields == {"Name", "Statement", "Deprecated"}
            restFields == {"Parameters", "Endpoint", "Method"}
        IN  /\ NameSet(qus) = T \cup R
            /\ UniqueNames(qus)
            /\ \A k \in 1..Len(qus) :
                  LET q == qus[k]
                  IN  /\ DOMAIN q = (IF q.Name \in T THEN textFields ELSE {"Name"})
                                    \cup (IF q.Name \in R THEN restFields ELSE {})
                      /\ q.Name \in T =>
                            \E j \in 1..Len(mg.text.Queries) :
                               /\ mg.text.Queries[j].Name = q.Name
                               /\ q.Statement = mg.text.Queries[j].Statement
                               /\ q.Deprecated = mg.text.Queries[j].Deprecated
                      /\ q.Name \in R =>
                            \E j \in 1..Len(mg.eps) :
                               /\ EndpointQuery(mg.eps[j]) = q.Name
                               /\ q.Endpoint = "/query/g1/" \o q.Name
                               /\ q.Method = "GET"
                               /\ q.Parameters = [n |-> [type |-> "INT64"]]

\* C1 witness: the merge has run on a scrape and endpoints that share one
\* name and have one name each of their own
C1_Witness ==
    /\ mg.stage = "done"
    /\ NameSet(mg.text.Queries) = {"q1", "q2"}
    /\ {EndpointQuery(mg.eps[k]) : k \in 1..Len(mg.eps)} = {"q2", "q3"}
    /\ Len(mg.ret.Queries) = 3

\* C8: merging the same JSON payload into the vertex type and edge type
\* collections a second time changes nothing: the local and global records
\* are those of the first merge, each field has the payload's value once,
\* and every record of the text scrape is still there, in its place.
C8_IdempotentMerge ==
    mg.n = 2 =>
        /\ mg.ret.VertexTypes = mg.once[1].ret.VertexTypes
        /\ mg.ret.EdgeTypes = mg.once[1].ret.EdgeTypes
        /\ mg.glob = mg.once[1].glob
        /\ MergedFrom(mg.ret.VertexTypes, mg.text.VertexTypes, mg.ret2.VertexTypes)
        /\ MergedFrom(mg.ret.EdgeTypes, mg.text.EdgeTypes, mg.ret2.EdgeTypes)
        /\ NamesOf(mg.ret.VertexTypes) = NamesOf(mg.text.VertexTypes)
        /\ NamesOf(mg.ret.EdgeTypes) = NamesOf(mg.text.EdgeTypes)

\* C8 witness: the payload was merged twice; it gave attributes to a scraped
\* vertex type, and another vertex type is known to the scrape only
C8_Witness ==
    /\ mg.n = 2
    /\ NamesOf(mg.text.VertexTypes) = <<"v1", "v2">>
    /\ \E k \in 1..Len(mg.ret2.VertexTypes) :
          mg.ret2.VertexTypes[k].Name = "v1" /\ mg.ret2.VertexTypes[k].Attributes = <<"a1">>
    /\ mg.ret.VertexTypes[1].Attributes = <<"a1">>
    /\ mg.glob.VertexTypes # <<>>
    /\ mg.ret.EdgeTypes # mg.text.EdgeTypes


(***************************************************************************)
(* SpecLs: _ls on its own.  The reply to LS is made of at most MaxBlocks   *)
(* blocks of the kinds the GSQL shell prints; the scan advances by one     *)
(* iteration of its while loop at a time.                                  *)
(***************************************************************************)
MaxBlocks == 2

VertexBlock == << "Vertex Types:", "  - VERTEX v1(PRIMARY_ID id STRING)" >>

EdgeBlock == << "Edge Types:", "  - UNDIRECTED EDGE e2(FROM v1, TO v1)" >>

IndexesBlock == << "Indexes:", "  - ix1:v1(id)", "" >>

\* a loading job as the shell prints it, the body indented
LoadingJobJ1 ==
    << "  - CREATE LOADING JOB j1 FOR GRAPH g1 {",
       "      DEFINE FILENAME f1 = \"a.csv\";",
       "      DEFINE FILENAME f2;",
       "      LOAD f1 TO VERTEX v1 VALUES ($0);",
       "    }" >>

\* two loading jobs, one after the other, and a section header other than
\* Queries after the second
LoadingJobsJ2J3 ==
    << "  - CREATE LOADING JOB j2 FOR GRAPH g1 {",
       "      DEFINE FILENAME f;",
       "    }",
       "  - CREATE LOADING JOB j3 FOR GRAPH g1 {",
       "      DEFINE FILENAME f;",
       "    }",
       "User defined tuples:",
       "  - t2(a int)" >>

\* the same loading job without any indentation
LoadingJobJ1Flat ==
    << "- CREATE LOADING JOB j1 FOR GRAPH g1 {",
       "DEFINE FILENAME f1 = \"a.csv\";",
       "DEFINE FILENAME f2;",
       "LOAD f1 TO VERTEX v1 VALUES ($0);",
       "}" >>

SchemaChangeJobBlock ==
    << "  - CREATE SCHEMA_CHANGE JOB sc1 FOR GRAPH g1 {",
       "      ADD VERTEX v4(PRIMARY_ID id INT);",
       "    }" >>

QueriesBlock ==
    << "Queries:", "  - q4 (deprecated)", "  - q5", "  - q1(string p)", "" >>

\* a query section that the next block follows directly
QueriesBlockOpen == << "Queries:", "  - q2()" >>

\* a query section whose queries take no parameters, listed by name alone
QueriesBlockBare == << "Queries:", "  - q5", "  - q6", "" >>

UDTsBlock == << "User defined tuples:", "  - t1(a int, b int)", "" >>

DataSourcesBlock == << "Data Sources:", "  - s3 ds1 (\"key\")", "" >>

OtherBlock == << "---- Graph g1", "Jobs:" >>

\* a loading job printed on one line
LoadingJobOneLine ==
    << "  - CREATE LOADING JOB j4 FOR GRAPH g1 { LOAD f TO VERTEX v1 VALUES ($0); }" >>

LsBlocks ==
    { VertexBlock, EdgeBlock, IndexesBlock, LoadingJobJ1, LoadingJobJ1Flat,
      SchemaChangeJobBlock, QueriesBlock, QueriesBlockOpen, UDTsBlock,
      DataSourcesBlock, OtherBlock, QueriesBlockBare, LoadingJobsJ2J3,
      LoadingJobOneLine }

LsReplies == {Flatten(bs) : bs \in SeqsUpTo(LsBlocks, MaxBlocks) \ {<<>>}}

InitLs ==
    /\ lsRes \in LsReplies
    /\ lsScope \in {GLOBAL, "g1"}
    /\ ls = LsStart
    /\ lsPc = "scan"
    /\ lsFrom = 0
    /\ lsRet = EmptyDict
    /\ ConnUnused /\ UserUnused /\ EdgeUnused /\ MergeUnused /\ ReaderUnused

\* the scan is at a line that the branch b of the chain takes
LsAt(b) ==
    /\ lsPc = "scan"
    /\ LsRunning(lsRes, ls)
    /\ LsBranch(LineAt(lsRes, ls.i)) = b

\* one iteration of the while loop; an exception ends the scan
LsStep ==
    /\ ls' = LsIterate(lsRes, ls)
    /\ lsFrom' = ls.i
    /\ lsPc' = IF ls'.err # "" THEN "raised" ELSE "scan"
    /\ UNCHANGED <<lsRes, lsScope, lsRet>>
    /\ UNCHANGED <<connVars, userVars, edgeVars, mergeVars, auxVars>>

LsVertexStep == LsAt("vertex") /\ LsStep

LsIndexesStep == LsAt("indexes") /\ LsStep

LsEdgeStep == LsAt("edge") /\ LsStep

LsLoadingJobStep == LsAt("loadingjob") /\ LsStep

LsSchemaChangeJobStep == LsAt("schemachangejob") /\ LsStep

LsQueriesStep == LsAt("queries") /\ LsStep

LsUDTsStep == LsAt("udts") /\ LsStep

LsDataSourcesStep == LsAt("datasources") /\ LsStep

LsIgnoreStep == LsAt("ignore") /\ LsStep

\* the loop is over: the dict is built and returned
LsReturnStep ==
    /\ lsPc = "scan"
    /\ ls.err = ""
    /\ ls.i >= Len(lsRes)
    /\ lsPc' = "returned"
    /\ lsRet' = LsReturn(ls, lsScope)
    /\ UNCHANGED <<lsRes, lsScope, ls, lsFrom>>
    /\ UNCHANGED <<connVars, userVars, edgeVars, mergeVars, auxVars>>

NextLs ==
    \/ LsVertexStep
    \/ LsIndexesStep
    \/ LsEdgeStep
    \/ LsLoadingJobStep
    \/ LsSchemaChangeJobStep
    \/ LsQueriesStep
    \/ LsUDTsStep
    \/ LsDataSourcesStep
    \/ LsIgnoreStep
    \/ LsReturnStep

SpecLs == InitLs /\ [][NextLs]_vars

LsEnded == lsPc \in {"returned", "raised"}

\* the reply holds the block blk from its line k on (k counts from 1)
BlockAt(res, k, blk) ==
    /\ k + Len(blk) - 1 <= Len(res)
    /\ SubSeq(res, k, k + Len(blk) - 1) = blk

\* the lines of a block without their indentation, the bullet of the first
\* line dropped
StrippedBlock(blk) ==
    Join([k \in 1..Len(blk) |->
            IF k = 1 THEN SliceFrom(Lstrip(blk[k]), 2) ELSE Lstrip(blk[k])], "\n")

\* C5: when the last iteration of the scan entered a loading job and no
\* later line contains "- CREATE" or starts with "Queries", the scan raises
\* ParseError; it neither raises an index error nor returns.
C5_TruncatedLoadingJobRaisesParseError ==
    ( /\ LsEnded
      /\ LsBranch(LineAt(lsRes, lsFrom)) = "loadingjob"
      /\ \A j \in (lsFrom + 2)..Len(lsRes) : ~IsJobTerminator(lsRes[j]) )
    => (lsPc = "raised" /\ ls.err = "ParseError")

\* C6: an LS reply that starts with the block of loading job j1, whose body
\* defines f1 = "a.csv" and f2, scans to a first LoadingJob record with Name
\* j1, FilenameDefinitions [(f1, a.csv), (f2, "")] and the block's lines
\* without their indentation as Statement.
C6_LoadingJobRoundTrip ==
    \A blk \in {LoadingJobJ1, LoadingJobJ1Flat} :
        (lsPc = "returned" /\ BlockAt(lsRes, 1, blk)) =>
            /\ ls.ljs # <<>>
            /\ ls.ljs[1].Name = "j1"
            /\ ls.ljs[1].FilenameDefinitions = << <<"f1", "a.csv">>, <<"f2", "">> >>
            /\ ls.ljs[1].Statement = StrippedBlock(blk)

\* the line k of the reply is a member line of a Queries section
InQueriesSection(res, k) ==
    \E h \in 1..(k - 1) :
        /\ StartsWith(res[h], "Queries:")
        /\ \A j \in (h + 1)..k : IsBulleted(res[j])

\* the bare name of a member line: what follows the bullet, up to the first
\* blank or parenthesis
BareName(line) ==
    LET item == SliceFrom(Lstrip(line), 2)
        stops == {k \in 0..(Len(item) - 1) : At(item, k) \in {" ", "("}}
    IN  IF stops = {} THEN item ELSE Slice(item, 0, MinOf(stops))

RECURSIVE ExpectedQueries(_, _)
ExpectedQueries(res, k) ==
    IF k > Len(res) THEN <<>>
    ELSE (IF InQueriesSection(res, k)
          THEN << <<BareName(res[k]), EndsWith(res[k], "(deprecated)")>> >>
          ELSE <<>>)
         \o ExpectedQueries(res, k + 1)

\* C9: the query records of a scan that returned are, in order, one per
\* bulleted line of the Queries sections, with the bare query name as Name
\* and Deprecated true exactly when the line ends with "(deprecated)".
C9_QueryNameAndFlag ==
    lsPc = "returned" =>
        [k \in 1..Len(ls.qus) |-> <<ls.qus[k].Name, ls.qus[k].Deprecated>>]
            = ExpectedQueries(lsRes, 1)


(***************************************************************************)
(* _getUsers (lines 429-478): the scan of the reply to SHOW USER.          *)
(* res[i] with i >= len(res) raises IndexError.                            *)
(***************************************************************************)
UsersStart == [i |-> 0, us |-> <<>>, err |-> ""]

\* line[line.find(marker) + len(marker):]
AfterMarker(line, marker) == SliceFrom(line, Find(line, marker) + Len(marker))

\* lines 463-465: token and expiry of a "- Token: t expire at: d" line
TokenOf(line) ==
    << Slice(line, Find(line, "- Token: ") + 9, Find(line, " expire at: ")),
       SliceFrom(line, Find(line, " expire at: ") + 12) >>

\* lines 458-468: the lines of a secret, from res[i] on; res[i] is loaded
RECURSIVE SecretLoop(_, _, _)
SecretLoop(res, i, sd) ==
    LET line == LineAt(res, i)
        sd2 == IF Contains(line, "- GraphName: ")
               THEN [sd EXCEPT !.Graph = AfterMarker(line, ": ")]
               ELSE IF Contains(line, "- Alias: ")
               THEN [sd EXCEPT !.Alias = AfterMarker(line, ": ")]
               ELSE IF Contains(line, "- Token: ")
               THEN [sd EXCEPT !.Tokens = Append(@, TokenOf(line))]
               ELSE sd
    IN  IF line = "" \/ Contains(line, "- Secret: ") THEN [i |-> i, sd |-> sd, err |-> ""]
        ELSE IF i + 1 >= Len(res) THEN [i |-> i + 1, sd |-> sd2, err |-> "IndexError"]
        ELSE SecretLoop(res, i + 1, sd2)

\* lines 446-473: while line != "", from res[i] on; res[i] is loaded
RECURSIVE UserBody(_, _, _)
UserBody(res, i, u) ==
    LET line == LineAt(res, i)
        failed(k) == [i |-> k, u |-> u, err |-> "IndexError"]
    IN  IF line = "" THEN [i |-> i, u |-> u, err |-> ""]
        ELSE IF Contains(line, "- Roles: ")
        THEN IF i + 1 >= Len(res) THEN failed(i + 1)
             ELSE UserBody(res, i + 1,
                           [u EXCEPT !.GlobalRoles = Split(AfterMarker(line, ": "), ", ")])
        ELSE IF Contains(line, "- GraphName: ")
        THEN IF i + 1 >= Len(res) THEN failed(i + 1)
             ELSE IF i + 2 >= Len(res) THEN failed(i + 2)
             ELSE LET gn == AfterMarker(line, ": ")
                      line2 == LineAt(res, i + 1)
                      roles == Split(SliceFrom(line2, Find(line2, ":") + 2), ", ")
                  IN  UserBody(res, i + 2,
                               [u EXCEPT !.LocalRoles = Append(@, SetKey(EmptyDict, gn, roles))])
        ELSE IF Contains(line, "- Secret: ")
        THEN IF i + 1 >= Len(res) THEN failed(i + 1)
             ELSE LET se == AfterMarker(line, "- Secret: ")
                      r == SecretLoop(res, i + 1, [Graph |-> "", Alias |-> "", Tokens |-> <<>>])
                  IN  IF r.err # "" THEN failed(r.i)
                      ELSE UserBody(res, (r.i - 1) + 1,
                                    [u EXCEPT !.Secrets = SetKey(@, se, r.sd)])
        ELSE IF i + 1 >= Len(res) THEN failed(i + 1)
        ELSE UserBody(res, i + 1, u)

IsUserLine(line) == Contains(line, "- Name:")

\* lines 439-474: the block of one user, from its "- Name:" line on
UsersUser(res, st) ==
    LET line == LineAt(res, st.i)
        u0 == [Name |-> AfterMarker(line, "- Name: "), GlobalRoles |-> <<>>,
               LocalRoles |-> <<>>, Secrets |-> EmptyDict]
        r == UserBody(res, st.i + 1, u0)
    IN  IF st.i + 1 >= Len(res) THEN [st EXCEPT !.err = "IndexError", !.i = @ + 1]
        ELSE IF r.err # "" THEN [st EXCEPT !.err = r.err, !.i = r.i]
        ELSE [st EXCEPT !.us = Append(@, r.u), !.i = r.i + 1]

\* line 475, for a line without "- Name:"
UsersSkip(res, st) == [st EXCEPT !.i = @ + 1]

UsersRunning(res, st) == st.err = "" /\ st.i < Len(res)

(***************************************************************************)
(* SpecUsers: _getUsers on replies made of at most MaxUserBlocks blocks.   *)
(***************************************************************************)
MaxUserBlocks == 3

\* the administrative account every installation has
ReservedAccount == "tigergraph"

ReservedBlock == << "  - Name: " \o ReservedAccount, "    - Roles: superuser", "" >>

UserU1 == << "  - Name: u1", "    - Roles: globaldesigner, queryreader", "" >>

UserU2 ==
    << "  - Name: u2",
       "    - GraphName: g1",
       "      - Roles: admin",
       "    - Secret: s1",
       "      - GraphName: g1",
       "      - Alias: a1",
       "      - Token: t1 expire at: 2030-01-01",
       "" >>

\* a block that no blank line ends
UserU3 == << "  - Name: u3", "    - Roles: queryreader" >>

\* a user whose local roles are listed after a secret
UserU4 ==
    << "  - Name: u4",
       "    - Secret: s2",
       "      - Alias: a2",
       "      - Token: t2 expire at: 2031-01-01",
       "    - GraphName: g2",
       "      - Roles: designer",
       "" >>

UsersHeader == << "Users:" >>

UserBlocks == {ReservedBlock, UserU1, UserU2, UserU3, UserU4, UsersHeader}

InitUsers ==
    /\ \E bs \in SeqsUpTo(UserBlocks, MaxUserBlocks) : usRes = Flatten(bs)
    /\ us = UsersStart
    /\ usPc = "scan"
    /\ ConnUnused /\ ScanUnused /\ EdgeUnused /\ MergeUnused /\ ReaderUnused

UsUser ==
    /\ usPc = "scan"
    /\ UsersRunning(usRes, us)
    /\ IsUserLine(LineAt(usRes, us.i))
    /\ us' = UsersUser(usRes, us)
    /\ usPc' = IF us'.err # "" THEN "raised" ELSE "scan"
    /\ UNCHANGED usRes
    /\ UNCHANGED <<connVars, scanVars, edgeVars, mergeVars, auxVars>>

UsSkip ==
    /\ usPc = "scan"
    /\ UsersRunning(usRes, us)
    /\ ~IsUserLine(LineAt(usRes, us.i))
    /\ us' = UsersSkip(usRes, us)
    /\ UNCHANGED <<usRes, usPc>>
    /\ UNCHANGED <<connVars, scanVars, edgeVars, mergeVars, auxVars>>

\* line 476: self.users = us
UsReturn ==
    /\ usPc = "scan"
    /\ us.err = ""
    /\ us.i >= Len(usRes)
    /\ usPc' = "returned"
    /\ UNCHANGED <<usRes, us>>
    /\ UNCHANGED <<connVars, scanVars, edgeVars, mergeVars, auxVars>>

NextUsers ==
    \/ UsUser
    \/ UsSkip
    \/ UsReturn

SpecUsers == InitUsers /\ [][NextUsers]_vars

\* C10: a reply made of the reserved account's block followed by the blocks
\* of n ordinary users scans to exactly n user records, those of the
\* ordinary users in the order of their blocks.
C10_ReservedAccountSkipped ==
    \A bs \in SeqsUpTo({UserU1, UserU2}, MaxUserBlocks - 1) \ {<<>>} :
        (usPc = "returned" /\ usRes = ReservedBlock \o Flatten(bs)) =>
            NamesOf(us.us) = [k \in 1..Len(bs) |-> AfterMarker(bs[k][1], "- Name: ")]


(***************************************************************************)
(* getEdgeType, getEdgeSourceVertexType and getEdgeTargetVertexType        *)
(* (lines 920-998).  A missing dict key raises KeyError; list(set) gives   *)
(* the elements of the set in an order the interpreter chooses.            *)
(***************************************************************************)
\* lines 929-932: the first record of that name, or {}
GetEdgeType(ets, edgeType) ==
    LET hits == {k \in 1..Len(ets) : ets[k].Name = edgeType}
    IN  IF hits = {} THEN EmptyDict ELSE ets[MinOf(hits)]

\* list(vts): the lists that hold each element of the set once
ListsOfSet(S) ==
    {q \in [1..Cardinality(S) -> S] : {q[k] : k \in 1..Len(q)} = S}

\* the source types collected from the pairs without the set
EdgeSourceOutcomesNoDedup(d) ==
    IF ~HasKey(d, "FromVertexTypeName") THEN {Raised("KeyError")}
    ELSE IF d.FromVertexTypeName # "*" THEN {Returned(<<d.FromVertexTypeName>>)}
    ELSE IF HasKey(d, "EdgePairs")
    THEN {Returned([k \in 1..Len(d.EdgePairs) |-> d.EdgePairs[k].From])}
    ELSE {Returned(<<"*">>)}

\* lines 953-965, on the record getEdgeType returned
EdgeSourceOutcomes(d) ==
    IF ~HasKey(d, "FromVertexTypeName") THEN {Raised("KeyError")}
    ELSE IF d.FromVertexTypeName # "*" THEN {Returned(<<d.FromVertexTypeName>>)}
    ELSE IF HasKey(d, "EdgePairs")
    THEN {Returned(q) : q \in ListsOfSet({d.EdgePairs[k].From : k \in 1..Len(d.EdgePairs)})}
    ELSE {Returned(<<"*">>)}

\* lines 986-998
EdgeTargetOutcomes(d) ==
    IF ~HasKey(d, "ToVertexTypeName") THEN {Raised("KeyError")}
    ELSE IF d.ToVertexTypeName # "*" THEN {Returned(<<d.ToVertexTypeName>>)}
    ELSE IF HasKey(d, "EdgePairs")
    THEN {Returned(q) : q \in ListsOfSet({d.EdgePairs[k].To : k \in 1..Len(d.EdgePairs)})}
    ELSE {Returned(<<"*">>)}

(***************************************************************************)
(* SpecEdge: the two accessors on a cached schema whose EdgeTypes hold an  *)
(* edge type known to the text scrape only (e0) and one enriched by the    *)
(* JSON schema (e1), with at most MaxPairs source / target pairs.          *)
(***************************************************************************)
MaxPairs == 2

EdgePairsOf == SeqsUpTo([From : {"A", "B"}, To : {"X", "Y"}], MaxPairs)

ScrapedEdge(name) == [Name |-> name, Statement |-> "DIRECTED EDGE " \o name \o "(FROM *, TO *)"]

EnrichedEdges ==
    LET base == {DictUpdate(ScrapedEdge("e1"),
                            [IsDirected |-> TRUE, FromVertexTypeName |-> f,
                             ToVertexTypeName |-> t]) : f \in {"A", "*"}, t \in {"X", "*"}}
    IN  base \cup {SetKey(b, "EdgePairs", ps) : b \in base, ps \in EdgePairsOf}

NoCall == [fn |-> "", edgeType |-> "", out |-> NoResult]

InitEdge ==
    /\ \E r \in EnrichedEdges : etSchema = << ScrapedEdge("e0"), r >>
    /\ etCall = NoCall
    /\ ConnUnused /\ ScanUnused /\ UserUnused /\ MergeUnused /\ ReaderUnused

GetEdgeSourceVertexType(edgeType) ==
    /\ \E o \in EdgeSourceOutcomes(GetEdgeType(etSchema, edgeType)) :
          etCall' = [fn |-> "getEdgeSourceVertexType", edgeType |-> edgeType, out |-> o]
    /\ UNCHANGED etSchema
    /\ UNCHANGED <<connVars, scanVars, userVars, mergeVars, auxVars>>

GetEdgeTargetVertexType(edgeType) ==
    /\ \E o \in EdgeTargetOutcomes(GetEdgeType(etSchema, edgeType)) :
          etCall' = [fn |-> "getEdgeTargetVertexType", edgeType |-> edgeType, out |-> o]
    /\ UNCHANGED etSchema
    /\ UNCHANGED <<connVars, scanVars, userVars, mergeVars, auxVars>>

NextEdge ==
    \/ \E edgeType \in {"e0", "e1", "nope"} : GetEdgeSourceVertexType(edgeType)
    \/ \E edgeType \in {"e0", "e1", "nope"} : GetEdgeTargetVertexType(edgeType)

SpecEdge == InitEdge /\ [][NextEdge]_vars

\* the normal form of an accessor's result: single is the type name of the
\* record's From / To field, ends are the From / To values of its pairs
NormalizedEndpoint(d, single, ends, out) ==
    IF single # "*" THEN out = Returned(<<single>>)
    ELSE IF HasKey(d, "EdgePairs")
    THEN /\ out.status = "returned"
         /\ {out.value[k] : k \in 1..Len(out.value)} = ends
         /\ Len(out.value) = Cardinality(ends)
         /\ \A k \in 1..Len(out.value) : out.value[k] # "*"
    ELSE out = Returned(<<"*">>)

\* C7: for an edge type enriched by the JSON schema, whose pairs name vertex
\* types, getEdgeSourceVertexType returns [FromVertexTypeName] when that is
\* not "*", whatever the pairs; the distinct From values of the pairs, each
\* once and none of them "*", when it is "*" and EdgePairs is there; ["*"]
\* when it is "*" and EdgePairs is not there.  getEdgeTargetVertexType does
\* the same with ToVertexTypeName and the To values.
C7_EdgeEndpointNormalization ==
    LET d == GetEdgeType(etSchema, etCall.edgeType)
    IN  /\ ( etCall.fn = "getEdgeSourceVertexType" /\ HasKey(d, "FromVertexTypeName") )
           => NormalizedEndpoint(d, d.FromVertexTypeName,
                                 IF HasKey(d, "EdgePairs")
                                 THEN {d.EdgePairs[k].From : k \in 1..Len(d.EdgePairs)}
                                 ELSE {}, etCall.out)
        /\ ( etCall.fn = "getEdgeTargetVertexType" /\ HasKey(d, "ToVertexTypeName") )
           => NormalizedEndpoint(d, d.ToVertexTypeName,
                                 IF HasKey(d, "EdgePairs")
                                 THEN {d.EdgePairs[k].To : k \in 1..Len(d.EdgePairs)}
                                 ELSE {}, etCall.out)

\* C7 witness: the source types of a wildcard edge type whose two pairs
\* start at the same vertex type were asked for, and came back as one name
C7_Witness ==
    LET d == GetEdgeType(etSchema, etCall.edgeType)
    IN  /\ etCall.fn = "getEdgeSourceVertexType"
        /\ HasKey(d, "FromVertexTypeName") /\ d.FromVertexTypeName = "*"
        /\ HasKey(d, "EdgePairs") /\ Len(d.EdgePairs) = 2
        /\ d.EdgePairs[1].From = d.EdgePairs[2].From
        /\ etCall.out = Returned(<<d.EdgePairs[1].From>>)

(***************************************************************************)
(* getUDTs: the merge of the JSON list into the scraped list (SpecUdt)     *)
(***************************************************************************)
\* getUDTs has fetched the JSON list and returned
UdtsFetched ==
    /\ pc = "done" /\ frame.op = "getUDTs"
    /\ result.status = "returned" /\ log # <<>>

JsonUdtNames(json) == {json[k].name : k \in 1..Len(json)}

\* C17: when getUDTs has merged the JSON list into the UDT list it found,
\* the names of the list are those of the list found and those of the JSON
\* list, each once; a UDT of the JSON list carries the JSON field list, and
\* an empty Statement when only the JSON list had it; a UDT the JSON list
\* does not have is as it was; the merge of the same JSON list into a list
\* that has its names adds no record; the call returns the names.
C17_UdtMergeByName ==
    UdtsFetched =>
        LET text == pre.graphs[GLOBAL][SCH].UserDefinedTypes
            json == RestUdtList(epoch)
            new == graphs[GLOBAL][SCH].UserDefinedTypes
        IN  /\ NameSet(new) = NameSet(text) \cup JsonUdtNames(json)
            /\ Len(new) = Cardinality(NameSet(new))
            /\ \A k \in 1..Len(json) : \A j \in 1..Len(new) :
                  new[j].Name = json[k].name
                  => /\ new[j].Fields = json[k].fields
                     /\ json[k].name \notin NameSet(text) => new[j].Statement = ""
            /\ \A j \in 1..Len(text) :
                  /\ new[j].Name = text[j].Name
                  /\ new[j].Statement = text[j].Statement
                  /\ text[j].Name \notin JsonUdtNames(json) => new[j] = text[j]
            /\ JsonUdtNames(json) \subseteq NameSet(text) => Len(new) = Len(text)
            /\ result.value = NamesOf(new)

\* C17 witness: getUDTs found the scraped t1, which the JSON list did not
\* have, and added t2, which only the JSON list had
C17_Witness ==
    /\ UdtsFetched
    /\ LET text == pre.graphs[GLOBAL][SCH].UserDefinedTypes
           new == graphs[GLOBAL][SCH].UserDefinedTypes
       IN  /\ \E j \in 1..Len(text) :
                 text[j].Name \notin JsonUdtNames(RestUdtList(epoch)) /\ new[j] = text[j]
           /\ \E j \in 1..Len(new) :
                 new[j].Name \notin NameSet(text) /\ new[j].Statement = ""

(***************************************************************************)
(* Two threads on one connection (SpecConc)                                *)
(***************************************************************************)
\* C11: whatever the reader obtains while the other thread refreshes is of
\* the graph the connection was made for: getCurrentGraph returns "g1", and
\* getSchema returns, without raising, a Schema of g1 as one refresh of g1
\* assembles it in full
C11_ReaderSeesOwnGraph ==
    ( rd.pc = "done" /\ rd.out # OwnRefresh )
    => /\ rd.out.status = "returned"
       /\ rd.op = "getCurrentGraph" => rd.out.value = "g1"
       /\ rd.op = "getSchema"
          => \E e \in 1..epoch : rd.out.value = FreshLocal("g1", e)

(***************************************************************************)
(* Published Schemas (Spec)                                                *)
(***************************************************************************)
\* C12: a Schema that is in the cache changes only in the step that stores
\* the result of a refresh of its own scope: the global slot when the global
\* scrape is stored (line 524), the slot of the current graph when the local
\* refresh is stored (line 582)
C12_PublishedSchemaOnlyReplaced ==
    [][ \A g \in DOMAIN graphs \cap DOMAIN graphs' :
           ( /\ HasKey(graphs[g], SCH) /\ HasKey(graphs'[g], SCH)
             /\ graphs'[g][SCH] # graphs[g][SCH] )
           => \/ g = GLOBAL /\ pc = "g_ls"
              \/ g # GLOBAL /\ g = graphName /\ pc = "l_ver" ]_vars

(***************************************************************************)
(* The enrichment of the type collections (SpecMerge)                      *)
(***************************************************************************)
\* the records of the two collections that have the name of the payload
\* record p agree on every field of p
SameJsonFields(loc, glob, p) ==
    \A k \in 1..Len(loc), j \in 1..Len(glob) :
       ( loc[k].Name = p.Name /\ glob[j].Name = p.Name )
       => \A f \in DOMAIN p :
             /\ HasKey(loc[k], f) /\ HasKey(glob[j], f)
             /\ glob[j][f] = loc[k][f]

\* C13: once the JSON payload of the graph is merged, every vertex type and
\* every edge type that the scrape of the graph, the payload and the cached
\* global collection all name has, in the global record, each field of the
\* payload with the value the record of the graph has
C13_LocalToGlobalPropagation ==
    mg.n >= 1 =>
        \A coll \in {"VertexTypes", "EdgeTypes"} :
           \A k \in 1..Len(mg.ret2[coll]) :
              mg.ret2[coll][k].Name \in NameSet(mg.text[coll])
              => SameJsonFields(mg.once[1].ret[coll], mg.once[1].glob[coll],
                                mg.ret2[coll][k])

\* C13 witness: v1 is scraped in the graph and globally, the payload gives
\* it the attribute a1, and the global record has it after the merge
C13_Witness ==
    /\ mg.n = 1
    /\ "v1" \in NameSet(mg.text.VertexTypes)
    /\ \E k \in 1..Len(mg.ret2.VertexTypes) :
          mg.ret2.VertexTypes[k].Name = "v1"
    /\ \E j \in 1..Len(mg.glob.VertexTypes) :
          /\ mg.glob.VertexTypes[j].Name = "v1"
          /\ HasKey(mg.glob.VertexTypes[j], "Attributes")
          /\ mg.glob.VertexTypes[j].Attributes = <<"a1">>

\* C16: once the JSON payload is merged, the vertex type names and the edge
\* type names of the Schema are those of the scrape, in its order; a name
\* that only the payload has gets no record, and a record whose name the
\* payload does not have is the scraped record, Name and Statement
C16_TextScrapeAuthoritative ==
    mg.n >= 1 =>
        \A coll \in {"VertexTypes", "EdgeTypes"} :
           /\ NamesOf(mg.ret[coll]) = NamesOf(mg.text[coll])
           /\ \A k \in 1..Len(mg.ret[coll]) :
                 mg.ret[coll][k].Name \notin NameSet(mg.ret2[coll])
                 => /\ mg.ret[coll][k] = mg.text[coll][k]
                    /\ DOMAIN mg.ret[coll][k] = {"Name", "Statement"}

\* C16 witness: the payload describes v9, which the scrape does not have,
\* and does not describe v2, which the scrape has
C16_Witness ==
    /\ mg.n = 1
    /\ \E k \in 1..Len(mg.ret2.VertexTypes) : mg.ret2.VertexTypes[k].Name = "v9"
    /\ "v9" \notin NameSet(mg.ret.VertexTypes)
    /\ "v2" \in NameSet(mg.ret.VertexTypes)
    /\ "v2" \notin NameSet(mg.ret2.VertexTypes)

\* the collections of a Schema that the accessors read, and its version
SchemaKeys ==
    {"VertexTypes", "EdgeTypes", "Indexes", "Queries", "LoadingJobs", "DataSources",
     "UserDefinedTypes", "Version"}

\* C14: every Schema in the cache, of a graph or of the global scope, has
\* each of the collections and a Version, so that getSchema()[collection]
\* cannot fail for a missing key
C14_EveryCachedSchemaComplete ==
    \A g \in DOMAIN graphs :
       HasKey(graphs[g], SCH) => SchemaKeys \subseteq DOMAIN graphs[g][SCH]

(***************************************************************************)
(* The scan of the LS reply: names, block boundaries, end of input (SpecLs) *)
(***************************************************************************)
\* what a member line lists: the text after the bullet, up to the first
\* parenthesis or colon
ListedItem(line) ==
    LET item == SliceFrom(Lstrip(line), 2)
        stops == {k \in 0..(Len(item) - 1) : At(item, k) \in {"(", ":"}}
    IN  RstripWs(IF stops = {} THEN item ELSE Slice(item, 0, MinOf(stops)))

\* no two member lines of the reply list the same item
ListedOnce(res) ==
    \A j, k \in 1..Len(res) :
       ( IsBulleted(res[j]) /\ IsBulleted(res[k]) /\ ListedItem(res[j]) = ListedItem(res[k]) )
       => j = k

\* C15: when the reply lists no name twice, no collection of the Schema that
\* the scan returns holds two records of the same Name
C15_NamesUniqueInCollection ==
    ( lsPc = "returned" /\ ListedOnce(lsRes) )
    => \A c \in DOMAIN lsRet \ {"Tags"} : UniqueNames(lsRet[c])

\* the last iteration of the scan took a loading job and did not raise
LoadingJobTaken ==
    /\ ls.err = ""
    /\ ls.i > lsFrom
    /\ IsLoadingJobLine(LineAt(lsRes, lsFrom))

\* the lines after the declaration (cursor counts from 0) that contain
\* "- CREATE" or start with "Queries"
BlockEnds(res, from) ==
    {j \in (from + 1)..(Len(res) - 1) :
        Contains(LineAt(res, j), "- CREATE") \/ StartsWith(LineAt(res, j), "Queries")}

\* C18: when the scan has taken a loading job, its cursor is at the first
\* later line that contains "- CREATE" or starts with "Queries", so that
\* line is classified by the next iteration; the Statement of the record is
\* the declaration without its bullet and every line before that one,
\* joined by newlines, trailing blanks and newlines trimmed, whatever
\* section headers are among them.  The reply that starts with the jobs j2
\* and j3 scans to the records j2 and j3 first, and the reply made of job j1
\* and the three-query section scans to one job and three queries.
C18_LoadingJobBlockBoundary ==
    /\ LoadingJobTaken =>
          LET ends == BlockEnds(lsRes, lsFrom)
              decl == LineAt(lsRes, lsFrom)
              lj == ls.ljs[Len(ls.ljs)]
          IN  /\ ends # {}
              /\ ls.i = MinOf(ends)
              /\ lj.Statement =
                    Rstrip(Join(<< SliceFrom(decl, Find(decl, "- ") + 2) >>
                                \o SubSeq(lsRes, lsFrom + 2, MinOf(ends)), "\n"),
                           {" ", "\n"})
    /\ ( lsPc = "returned" /\ BlockAt(lsRes, 1, LoadingJobsJ2J3) )
       => Len(ls.ljs) >= 2 /\ ls.ljs[1].Name = "j2" /\ ls.ljs[2].Name = "j3"
    /\ ( lsPc = "returned" /\ lsRes = LoadingJobJ1 \o QueriesBlock )
       => Len(ls.ljs) = 1 /\ Len(ls.qus) = 3

\* C18 witness: the jobs j2 and j3 are both taken, the header of the tuple
\* section went into the Statement of j3, and the cursor is at the Queries
\* header that follows
C18_Witness ==
    /\ LoadingJobTaken
    /\ NamesOf(ls.ljs) = <<"j2", "j3">>
    /\ Contains(ls.ljs[2].Statement, "User defined tuples:")
    /\ ls.i < Len(lsRes)
    /\ StartsWith(LineAt(lsRes, ls.i), "Queries")

\* the branches of the scan that read the member lines of a block
BulletedSections == {"indexes", "queries", "udts", "datasources"}

\* C19: when the last iteration of the scan entered an Indexes, Queries,
\* User defined tuples or Data Sources block and every line after the header
\* is a member line, so that the reply ends inside the block, the scan
\* raises ParseError; it does not read past the last line (IndexError) and
\* does not return.
C19_BlockAtEndRaisesParseError ==
    ( /\ LsEnded
      /\ LsBranch(LineAt(lsRes, lsFrom)) \in BulletedSections
      /\ \A j \in (lsFrom + 2)..Len(lsRes) : IsBulleted(lsRes[j]) )
    => (lsPc = "raised" /\ ls.err = "ParseError")

\* one SHOW QUERY per member line of the Queries sections, for the name the
\* line lists, in the order of the lines
RECURSIVE ExpectedShowQueries(_, _)
ExpectedShowQueries(res, k) ==
    IF k > Len(res) THEN <<>>
    ELSE (IF InQueriesSection(res, k)
          THEN << "SHOW QUERY " \o BareName(res[k]) >>
          ELSE <<>>)
         \o ExpectedShowQueries(res, k + 1)

\* C20: the commands of a scan that returned are LS first and then, in the
\* order of the listing, one SHOW QUERY for each query the reply lists, with
\* the listed name, and no other command
C20_ShowQueryPerListedName ==
    lsPc = "returned" => ls.cmds = <<"LS">> \o ExpectedShowQueries(lsRes, 1)

(***************************************************************************)
(* SpecStats: getVertexStats and getEdgeStats on a connection that moves   *)
(* between graphs.  One request to /builtins per type; the backend answers *)
(* with statistics, with the error that says that statistics were skipped  *)
(* for the type, or with another error.                                    *)
(***************************************************************************)
MaxTypes == 2

StatTypes == {"t1", "t2"}

ReplyKinds == {"stats", "na", "error", "errorNoCode"}

\* the text that tells that the backend skipped the statistics of a type
SkipSignal(fn) ==
    IF fn = "stat_vertex_attr" THEN "stat_vertex_attr is skip"
    ELSE "stat_edge_attr is skiped"

\* the message of the backend for a type without statistics; it holds the
\* text that the client looks for
SkippedMessage(fn) ==
    IF fn = "stat_vertex_attr" THEN "Builtin stat_vertex_attr is skipped"
    ELSE "Builtin stat_edge_attr is skiped"

\* the key of the type name in an element of "results"
TypeKey(fn) == IF fn = "stat_vertex_attr" THEN "v_type" ELSE "e_type"

StatAttributes(t) == << [name |-> "a", type |-> "INT", of |-> t] >>

\* the JSON reply of POST /builtins/<graph> to {"function": fn, "type": t}
BuiltinsReply(fn, t, kind) ==
    CASE kind = "stats" ->
           [error |-> FALSE, message |-> "",
            results |-> << SetKey(SetKey(EmptyDict, TypeKey(fn), t), "attributes",
                                   StatAttributes(t)) >>]
      [] kind = "na" ->
           [error |-> TRUE, code |-> "REST-30200",
            message |-> SkippedMessage(fn) \o " for type " \o t]
      [] kind = "error" ->
           [error |-> TRUE, code |-> "REST-30000",
            message |-> "Function " \o fn \o " failed for type " \o t]
      [] OTHER ->
           [error |-> TRUE, message |-> "Backend unavailable for type " \o t]

\* raise TigerGraphException(message, code)
TigerGraphException(message, code) ==
    [name |-> "TigerGraphException", message |-> message, code |-> code]

NoException == [name |-> ""]

\* an empty result is stored for a skipped type whatever skipNA says
RECURSIVE StatsLoopKeepNA(_, _, _, _, _, _)
StatsLoopKeepNA(fn, types, skipNA, replies, k, ret) ==
    IF k > Len(types) THEN [ret |-> ret, exc |-> NoException, calls |-> k - 1]
    ELSE LET t == types[k]
             res == BuiltinsReply(fn, t, replies[t])
         IN  IF res.error
             THEN IF Contains(res.message, SkipSignal(fn))
                  THEN StatsLoopKeepNA(fn, types, skipNA, replies, k + 1,
                                       SetKey(ret, t, EmptyDict))
                  ELSE [ret |-> ret, calls |-> k,
                        exc |-> TigerGraphException(
                                  res.message,
                                  IF "code" \in DOMAIN res THEN res.code ELSE "None")]
             ELSE StatsLoopKeepNA(fn, types, skipNA, replies, k + 1,
                                  SetKey(ret, res.results[1][TypeKey(fn)],
                                         res.results[1].attributes))

\* lines 840-852 and 1125-1137: the loop over the types, from types[k] on
RECURSIVE StatsLoop(_, _, _, _, _, _)
StatsLoop(fn, types, skipNA, replies, k, ret) ==
    IF k > Len(types) THEN [ret |-> ret, exc |-> NoException, calls |-> k - 1]
    ELSE LET t == types[k]
             res == BuiltinsReply(fn, t, replies[t])
         IN  IF res.error
             THEN IF Contains(res.message, SkipSignal(fn))
                  THEN StatsLoop(fn, types, skipNA, replies, k + 1,
                                 IF ~skipNA THEN SetKey(ret, t, EmptyDict) ELSE ret)
                  ELSE [ret |-> ret, calls |-> k,
                        exc |-> TigerGraphException(
                                  res.message,
                                  IF "code" \in DOMAIN res THEN res.code ELSE "None")]
             ELSE StatsLoop(fn, types, skipNA, replies, k + 1,
                            SetKey(ret, res.results[1][TypeKey(fn)], res.results[1].attributes))

\* the call ends: its arguments, the requests it made and its outcome
StatsCall(op, fn, types, skipNA, replies, refused) ==
    LET r == StatsLoop(fn, types, skipNA, replies, 1, EmptyDict)
    IN  /\ pc = "idle"
        /\ pc' = "done"
        /\ frame' = [NoFrame EXCEPT !.op = op,
                       !.args = [fn |-> fn, types |-> types, skipNA |-> skipNA,
                                 replies |-> replies]]
        /\ pre' = [graphs |-> graphs, graphName |-> graphName]
        /\ IF refused
           THEN /\ log' = <<>>
                /\ result' = Raised(TigerGraphException(
                     "Vertex statistics are not available in global context", "None"))
           ELSE /\ log' = [k \in 1..r.calls |->
                             Cmd("POST /builtins/" \o graphName \o " " \o fn \o " "
                                   \o types[k], graphName)]
                /\ result' = IF r.exc # NoException THEN Raised(r.exc)
                             ELSE Returned(r.ret)
        /\ UNCHANGED <<graphName, graphs, restToken, epoch>>
        /\ UNCHANGED udts
        /\ OtherUnchanged

\* lines 813-853: getVertexStats(vertexTypes, skipNA), vertexTypes a list
GetVertexStats(types, skipNA, replies) ==
    /\ pc = "idle"
    /\ StatsCall("getVertexStats", "stat_vertex_attr", types, skipNA, replies,
                 graphName = GLOBAL)

\* lines 1105-1138: getEdgeStats(edgeTypes, skipNA), edgeTypes a list
GetEdgeStats(types, skipNA, replies) ==
    /\ pc = "idle"
    /\ StatsCall("getEdgeStats", "stat_edge_attr", types, skipNA, replies, FALSE)

NextStats ==
    \/ \E types \in SeqsUpTo(StatTypes, MaxTypes), skipNA \in BOOLEAN,
          replies \in [StatTypes -> ReplyKinds] :
          GetVertexStats(types, skipNA, replies)
    \/ \E types \in SeqsUpTo(StatTypes, MaxTypes), skipNA \in BOOLEAN,
          replies \in [StatTypes -> ReplyKinds] :
          GetEdgeStats(types, skipNA, replies)
    \/ \E name \in UseGraphNames, ok \in BOOLEAN : UseGraph(name, "", ok)
    \/ Finish

SpecStats == Init /\ [][NextStats]_vars

(***************************************************************************)
(* useGraph (SpecUse)                                                      *)
(***************************************************************************)
\* useGraph was called for a graph, not for the global scope, and has ended
UseGraphEnded ==
    pc = "done" /\ frame.op = "useGraph" /\ Upper(frame.graphName) # GLOBAL

\* the command went through
Answered == result.status = "raised" => result.exc # "TransportError"

\* C21: when the first line of the reply to USE GRAPH does not contain
\* "Using graph ", useGraph raises TigerGraphException with that line, and
\* the current graph, self.graphs with its secrets and tokens, and the token
\* of the REST driver are as they were before the call
C21_FailedSwitchLeavesSession ==
    ( /\ UseGraphEnded /\ Answered
      /\ ~Contains(GsqlUseGraph(frame.graphName), "Using graph ") )
    => /\ result = Raised("TigerGraphException: " \o GsqlUseGraph(frame.graphName))
       /\ graphName = pre.graphName
       /\ graphs = pre.graphs
       /\ pre.graphName # GLOBAL => restToken = graphs[pre.graphName][TOK]

\* C21 witness: the switch to a graph the server does not have was refused
\* on a connection that has used g2 with the token t1
C21_Witness ==
    /\ UseGraphEnded
    /\ frame.graphName = "nope"
    /\ result.status = "raised" /\ result.exc # "TransportError"
    /\ graphName = "g2" /\ graphs["g2"][TOK] = "t1"

\* C22: after useGraph(g) returned, the token of the REST driver is the one
\* stored for g and no other graph's entry has changed; when the call gave
\* no token, the entry of g is the one it had if g had a token stored, and
\* an empty secret and token otherwise; when it gave one, that is stored
C22_TokenReuse ==
    ( UseGraphEnded /\ result.status = "returned" )
    => LET g == frame.graphName
           known == HasKey(pre.graphs, g) /\ HasKey(pre.graphs[g], TOK)
       IN  /\ graphName = g
           /\ restToken = graphs[g][TOK]
           /\ DOMAIN graphs = DOMAIN pre.graphs \cup {g}
           /\ \A h \in DOMAIN pre.graphs \ {g} : graphs[h] = pre.graphs[h]
           /\ ( frame.apiToken = "" /\ known ) => graphs[g] = pre.graphs[g]
           /\ ( frame.apiToken = "" /\ ~known )
              => graphs[g][SEC] = "" /\ graphs[g][TOK] = ""
           /\ frame.apiToken # "" => graphs[g][TOK] = frame.apiToken

\* C22 witness: g1 was given the token t1 earlier; the session comes back
\* from g2 with useGraph("g1") and the REST driver has t1 again
C22_Witness ==
    /\ UseGraphEnded /\ result.status = "returned"
    /\ frame.graphName = "g1" /\ frame.apiToken = ""
    /\ pre.graphName = "g2" /\ pre.graphs["g2"][TOK] = "t2"
    /\ restToken = "t1"

(***************************************************************************)
(* getSchemaVersion (Spec)                                                 *)
(***************************************************************************)
\* C23: getSchemaVersion() returns None when the current graph is GLOBAL
\* and the schema version of the current graph otherwise, in every state of
\* the session, a graph that was only selected included
C23_SchemaVersionOfCurrentGraph ==
    ( pc = "done" /\ frame.op = "getSchemaVersion" )
    => IF graphName = GLOBAL THEN result = Returned("None")
       ELSE /\ result.status = "returned"
            /\ HasKey(graphs[graphName], SCH)
            /\ result.value = graphs[graphName][SCH].Version

\* C27: getSchema leaves the session on the graph it was on: whenever a
\* getSchema call has returned or raised, the current graph is the one the
\* call started from
C27_GetSchemaKeepsCurrentGraph ==
    GetSchemaEnded => graphName = pre.graphName

(***************************************************************************)
(* getUDTs and the global schema (SpecUdt)                                 *)
(***************************************************************************)
\* C29: getUDTs() makes sure the schema of GLOBAL has been scraped before
\* it reads the UDT collection of GLOBAL: unless the request for the UDT
\* list failed on the way, a getUDTs call returns names and the schema of
\* GLOBAL is cached, on a connection that never called getSchema as well
C29_GetUDTsEnsuresGlobalSchema ==
    ( pc = "done" /\ frame.op = "getUDTs" /\ Answered )
    => result.status = "returned" /\ HasKey(graphs[GLOBAL], SCH)

(***************************************************************************)
(* The statement of a query (SpecLs)                                       *)
(***************************************************************************)
\* the text from the first occurrence of "CREATE" onward
FromFirstCreate(s) ==
    LET k == Find(s, "CREATE") IN IF k >= 0 THEN SliceFrom(s, k) ELSE s

\* C24: the Statement of every query record is the output of SHOW QUERY for
\* its name from the first "CREATE" onward: the preamble is removed and
\* nothing after that "CREATE" is, also when the body of the query has the
\* word CREATE in it
C24_StatementFromFirstCreate ==
    lsPc = "returned"
    => \A k \in 1..Len(ls.qus) :
         ls.qus[k].Statement
           = FromFirstCreate(Join(GsqlShowQuery(ls.qus[k].Name), "\n"))

(***************************************************************************)
(* The line that ends a bulleted block (SpecLs)                            *)
(***************************************************************************)
\* the header of a section whose members are bulleted lines
IsBulletedHeader(line) ==
    IsIndexesLine(line) \/ IsQueriesLine(line) \/ IsUDTsLine(line)
      \/ IsDataSourcesLine(line)

\* the collection that the section of a header fills
CollectionOf(line, st) ==
    IF IsIndexesLine(line) THEN st.ixs
    ELSE IF IsQueriesLine(line) THEN st.qus
    ELSE IF IsUDTsLine(line) THEN st.udts
    ELSE st.dss

\* line k comes directly after the last member of a bulleted block
EndsBlock(res, k) ==
    /\ k \in 3..Len(res)
    /\ ~IsBulleted(res[k])
    /\ \E h \in 1..(k - 2) :
          /\ IsBulletedHeader(res[h])
          /\ \A j \in (h + 1)..(k - 1) : IsBulleted(res[j])

\* C28: the line that ends a bulleted block is classified like every other
\* line: when it is the header of a section with a member line after it,
\* the returned collection of that section has a record of that member
C28_BlockEndLineClassified ==
    lsPc = "returned"
    => \A k \in 1..(Len(lsRes) - 1) :
         ( EndsBlock(lsRes, k) /\ IsBulletedHeader(lsRes[k])
             /\ IsBulleted(lsRes[k + 1]) )
         => \E r \in 1..Len(CollectionOf(lsRes[k], ls)) :
               /\ CollectionOf(lsRes[k], ls)[r].Name # ""
               /\ Contains(lsRes[k + 1], CollectionOf(lsRes[k], ls)[r].Name)

NameLines(res) ==
    SelectSeq([k \in 1..Len(res) |-> k], LAMBDA k : IsUserLine(res[k]))

\* the blank line that ends the block starting at line a
BlockEnd(res, a) ==
    LET blanks == {k \in (a + 1)..Len(res) : res[k] = ""}
    IN  IF blanks = {} THEN Len(res) + 1 ELSE MinOf(blanks)

\* a "- GraphName:" line of the user, not of one of the user's secrets
IsUserLevelGraph(line) == StartsWith(line, "    - GraphName: ")

\* the local roles listed in the block from line a to line b: one entry for
\* each "- GraphName:" line of the user, with the roles of the next line
ListedLocalRoles(res, a, b) ==
    LET at == SelectSeq([k \in 1..(b - a) |-> a + k],
                        LAMBDA k : IsUserLevelGraph(res[k]))
    IN  [j \in 1..Len(at) |->
            SetKey(EmptyDict, AfterMarker(res[at[j]], ": "),
                   Split(AfterMarker(res[at[j] + 1], ": "), ", "))]

\* the secrets named in the block from line a to line b
ListedSecrets(res, a, b) ==
    {AfterMarker(res[k], "- Secret: ") :
        k \in {j \in (a + 1)..(b - 1) : Contains(res[j], "- Secret: ")}}

\* every user block of the reply ends with a blank line before the next one
\* starts
BlankTerminated(res) ==
    \A a \in 1..Len(res) :
       IsUserLine(res[a])
       => /\ BlockEnd(res, a) <= Len(res)
          /\ \A k \in (a + 1)..BlockEnd(res, a) : ~IsUserLine(res[k])

\* C25: on a reply of blank-line-terminated blocks the scan of SHOW USER
\* returns one record for each "- Name:" line, in order; the LocalRoles of a record are the "- GraphName:" lines of the
\* user in its block, each with the roles of the line after it, whether
\* they stand before or after a secret; its Secrets are those of its block
C25_UserBlockAttribution ==
    ( usPc = "returned" /\ BlankTerminated(usRes) )
    => LET at == NameLines(usRes)
       IN  /\ Len(us.us) = Len(at)
           /\ \A r \in 1..Len(at) :
                LET a == at[r]
                    b == BlockEnd(usRes, a)
                IN  /\ us.us[r].Name = AfterMarker(usRes[a], "- Name: ")
                    /\ us.us[r].LocalRoles = ListedLocalRoles(usRes, a, b)
                    /\ DOMAIN us.us[r].Secrets = ListedSecrets(usRes, a, b)

\* a getVertexStats or getEdgeStats call that sent its requests has ended
StatsEnded ==
    /\ pc = "done"
    /\ frame.op \in {"getVertexStats", "getEdgeStats"}
    /\ ~(frame.op = "getVertexStats" /\ graphName = GLOBAL)

\* the reply of the backend for the k-th type of the call
ReplyOf(k) ==
    BuiltinsReply(frame.args.fn, frame.args.types[k],
                  frame.args.replies[frame.args.types[k]])

\* the reply is the error that says that the statistics were skipped
IsSkipped(k) == ReplyOf(k).error /\ Contains(ReplyOf(k).message, SkipSignal(frame.args.fn))

\* the reply is any other error
IsFailure(k) == ReplyOf(k).error /\ ~IsSkipped(k)

\* C26: an error of the backend that says that the statistics of a type
\* were skipped is not raised: the type maps to an empty result when skipNA
\* is false and is left out when it is true, and the types after it are
\* processed; the first error of any other kind raises TigerGraphException
\* with the message and the code of the backend
C26_StatsErrorHandling ==
    StatsEnded
    => LET n == Len(frame.args.types)
           failures == {k \in 1..n : IsFailure(k)}
           kept == {k \in 1..n : ~IsSkipped(k) \/ ~frame.args.skipNA}
       IN  IF failures = {}
           THEN /\ result.status = "returned"
                /\ DOMAIN result.value = {frame.args.types[k] : k \in kept}
                /\ \A k \in kept :
                     result.value[frame.args.types[k]]
                       = IF IsSkipped(k) THEN EmptyDict
                         ELSE StatAttributes(frame.args.types[k])
                /\ Len(log) = n
           ELSE LET f == MinOf(failures)
                IN  /\ result.status = "raised"
                    /\ result.exc.name = "TigerGraphException"
                    /\ result.exc.message = ReplyOf(f).message
                    /\ result.exc.code = IF "code" \in DOMAIN ReplyOf(f)
                                         THEN ReplyOf(f).code ELSE "None"
                    /\ Len(log) = f

\* C26 witness: statistics were skipped for the first of two edge types and
\* skipNA is set; the call returned the statistics of the second type alone
C26_Witness ==
    /\ StatsEnded
    /\ frame.op = "getEdgeStats"
    /\ frame.args.types = <<"t1", "t2">>
    /\ frame.args.skipNA
    /\ IsSkipped(1) /\ ~ReplyOf(2).error
    /\ result.status = "returned"
    /\ DOMAIN result.value = {"t2"}

====
